---------------------------- MODULE Spec2Model ----------------------------
(***************************************************************************)
(* Model of burrow's streaming core.                                       *)
(*                                                                         *)
(*   internal/enc/aead.go   EncryptAEAD / DecryptAEAD: the chunked AEAD    *)
(*                          stream (4-byte LE length + ciphertext||tag).   *)
(*   internal/pipeline      pipeGraph: N stage goroutines joined by        *)
(*                          io.Pipe, first error wins.                     *)
(*                                                                         *)
(* Byte strings are sequences of numbers 0..255.  The cryptographic        *)
(* primitives the code calls (XChaCha20-Poly1305, SHA-256) are computed by *)
(* small stand-ins that keep their interface: Seal returns |pt| body bytes *)
(* followed by a 16-byte tag, Open recomputes the tag over key, nonce,     *)
(* AAD and body and compares.                                              *)
(***************************************************************************)
EXTENDS Integers, Sequences, FiniteSets, TLC

VARIABLES
    \* ---- AEAD codec scenario ----
    phase,      \* "idle" | "start" | "encrypted" | "tampered" | "decrypted" | "encfailed"
    plain,      \* the plaintext P handed to EncryptAEAD
    srcEnd,     \* how the plaintext reader ends: "EOF" or a read error
    dataKey,    \* the key handed to EncryptAEAD and DecryptAEAD
    params,     \* AEADParams {ObjectID, ChunkSize, NBase}
    encRes,     \* what EncryptAEAD returned
    stream,     \* the ciphertext bytes as stored (possibly altered afterwards)
    tamper,     \* what was done to the stream between encrypt and decrypt
    decRes,     \* what DecryptAEAD returned
    \* ---- pipeGraph scenario ----
    nStages,    \* len(stages)
    faulty,     \* the stages whose function may return an error of its own
    mustFail,   \* the stages whose function never returns nil
    mainPc,     \* pipeGraph itself: "idle" | "start" | "spawn" | "wait" | "returned"
    spawned,    \* goroutines started so far
    wg,         \* the WaitGroup counter
    errCh,      \* the buffered channel of capacity 1
    cancelled,  \* the shared context is cancelled
    result,     \* what pipeGraph returned ("none" before it returns)
    pipes,      \* pipes[i] joins stage i (writer) and stage i+1 (reader)
    stages,     \* per stage goroutine: pc, bytes in hand, return value, ...
    offered,    \* history: the bytes stage i handed to Write on pipes[i]
    got,        \* history: the bytes stage i+1 received from pipes[i]
    readEnd,    \* history: what the Read that found pipes[i] closed returned
    errLog      \* history: the stage errors in the order they reached the select

\* internal/compress: one compressor and what was written into it
VARIABLES
    comp,       \* the io.WriteCloser NewCompressorWithInfo returned, with its
                \* CompressInfo and the bytes that reached the sink
    written     \* history: the buffers handed to Write, concatenated

\* internal/upload, internal/download, internal/envelope over one bucket
VARIABLES
    store,      \* the bucket: object key -> stored object
    up,         \* one Uploader and its Execute call
    down,       \* one Downloader and its Execute call
    fresh,      \* how many values the random sources have given out
    sealLog     \* history: every (DataKey, nonce, chunk) handed to aead.Seal

aeadVars == <<phase, plain, srcEnd, dataKey, params, encRes, stream, tamper, decRes>>

pipeVars == <<nStages, faulty, mustFail, mainPc, spawned, wg, errCh, cancelled,
              result, pipes, stages, offered, got, readEnd, errLog>>

compVars == <<comp, written>>

xferVars == <<store, up, down, fresh, sealLog>>

vars == <<aeadVars, pipeVars, compVars, xferVars>>

-----------------------------------------------------------------------------
(* Bounds of the model *)

\* longest plaintext
MaxPlain == 5
\* the small ChunkSize used beside the default one
SmallChunk == 2
\* size of the bufio.Writer buffer, scaled like SmallChunk (the real one is
\* 4096 bytes, below every ChunkSize NewAEADParams accepts)
BufSize == 1

\* most stages of a pipeline
MaxStages == 3
\* most bytes the first stage produces
MaxData == 2
\* size of the buffer a stage reads into
ReadBuf == 1

(* Program constants *)
AEADDefaultChunkSize == 4194304
aeadTagSize == 16
KeySize == 32
NBaseSize == 24
HdrSize == 4
ShaSize == 32

\* "burrow.v1"
aeadVersionTag == <<98, 117, 114, 114, 111, 119, 46, 118, 49>>

-----------------------------------------------------------------------------
(* Byte helpers *)

Min(a, b) == IF a < b THEN a ELSE b

\* a byte string of n copies of b
Rep(b, n) == [i \in 1..n |-> b]

\* binary.LittleEndian.PutUint64 / PutUint32: the k low bytes of n
RECURSIVE LE(_, _)
LE(n, k) == IF k = 0 THEN <<>> ELSE <<n % 256>> \o LE(n \div 256, k - 1)

\* binary.LittleEndian.Uint32.  A length of 2^31 or more is larger than any
\* stream of the model and is reported as the largest number available.
Uint32(b) ==
    IF b[4] >= 128 THEN 2147483647
    ELSE b[1] + 256 * b[2] + 65536 * b[3] + 16777216 * b[4]

\* the value of polynomial m[1] x^(n-1) + ... + m[n] at x, modulo 251
\* (every coefficient is taken one larger, so that zero bytes count), by
\* halves so that the evaluation of a long message stays shallow
RECURSIVE PowMod(_, _)
PowMod(x, k) ==
    IF k = 0 THEN 1
    ELSE LET h == PowMod(x, k \div 2)
         IN IF k % 2 = 0 THEN (h * h) % 251 ELSE (h * h * x) % 251

RECURSIVE PolyRange(_, _, _, _)
PolyRange(m, x, lo, hi) ==
    IF lo > hi THEN 0
    ELSE IF lo = hi THEN (m[lo] + 1) % 251
    ELSE LET mid == (lo + hi) \div 2
         IN (PolyRange(m, x, lo, mid) * PowMod(x, hi - mid)
               + PolyRange(m, x, mid + 1, hi)) % 251

Poly(m, x) == PolyRange(m, x, 1, Len(m))

\* byte b with bit k flipped
FlipBit(b, k) ==
    LET w == IF k = 0 THEN 1 ELSE IF k = 1 THEN 2 ELSE IF k = 2 THEN 4
             ELSE IF k = 3 THEN 8 ELSE IF k = 4 THEN 16 ELSE IF k = 5 THEN 32
             ELSE IF k = 6 THEN 64 ELSE 128
    IN IF (b \div w) % 2 = 1 THEN b - w ELSE b + w

IsPrefix(s, t) == Len(s) <= Len(t) /\ SubSeq(t, 1, Len(s)) = s

-----------------------------------------------------------------------------
(* SHA-256 as the code uses it: h.Write appends to what is hashed, h.Sum   *)
(* gives 32 bytes.  Sum evaluates the message, length first, as a          *)
(* polynomial at 32 points: two messages shorter than 32 bytes with the    *)
(* same digest are the same message.                                       *)

ShaNew == <<>>
ShaWrite(h, b) == h \o b
ShaSum(h) == [i \in 1..ShaSize |-> Poly(<<Len(h)>> \o h, i)]

\* hmac.Equal on two digests
VerifySHA256(a, b) == a = b

-----------------------------------------------------------------------------
(* XChaCha20-Poly1305 as the code uses it.  The keystream byte and the     *)
(* tag depend on every byte of key and nonce; the tag also on every byte   *)
(* of the AAD and of the body.                                             *)

KeyMix(key, nonce) == (Poly(key, 3) + 7 * Poly(nonce, 5)) % 251

TagOf(key, nonce, aad, body) ==
    LET km == KeyMix(key, nonce)
        d1 == Poly(aad \o <<Len(aad)>> \o body, 2)
        d2 == Poly(aad \o <<Len(aad)>> \o body, 3)
    IN [i \in 1..aeadTagSize |-> (km * i + d1 + d2 * i * i) % 251]

\* aead.Seal(nil, nonce, pt, aad): body || tag
Seal(key, nonce, pt, aad) ==
    LET km == KeyMix(key, nonce)
        body == [j \in 1..Len(pt) |-> (pt[j] + km + j) % 256]
    IN body \o TagOf(key, nonce, aad, body)

\* Open without the comparison of the tag
Open_Unchecked(key, nonce, ct, aad) ==
    LET n == Len(ct) - aeadTagSize
        km == KeyMix(key, nonce)
    IN [ok |-> TRUE, pt |-> [j \in 1..n |-> (ct[j] + 512 - km - j) % 256]]

\* aead.Open(nil, nonce, ct, aad): the plaintext, or an authentication error
Open(key, nonce, ct, aad) ==
    IF Len(ct) < aeadTagSize THEN [ok |-> FALSE, pt |-> <<>>]
    ELSE LET n == Len(ct) - aeadTagSize
             body == SubSeq(ct, 1, n)
             tag == SubSeq(ct, n + 1, Len(ct))
             km == KeyMix(key, nonce)
         IN IF tag = TagOf(key, nonce, aad, body)
            THEN [ok |-> TRUE,
                  pt |-> [j \in 1..n |-> (body[j] + 512 - km - j) % 256]]
            ELSE [ok |-> FALSE, pt |-> <<>>]

-----------------------------------------------------------------------------
(* Readers and writers *)

\* A reader: the bytes it still holds and how it ends ("EOF" or an error).
Reader(data, end) == [data |-> data, end |-> end]

\* io.ReadFull(br, buf) with len(buf) = n: n bytes and no error, or the bytes
\* left with io.EOF (none read), io.ErrUnexpectedEOF (some read, then EOF)
\* or the reader's own error.
ReadFull(src, n) ==
    IF Len(src.data) >= n
    THEN [got |-> SubSeq(src.data, 1, n), rerr |-> "nil",
          rest |-> Reader(SubSeq(src.data, n + 1, Len(src.data)), src.end)]
    ELSE [got |-> src.data,
          rerr |-> IF src.end = "EOF" /\ Len(src.data) > 0
                   THEN "ErrUnexpectedEOF" ELSE src.end,
          rest |-> Reader(<<>>, src.end)]

\* bufio.NewWriter(dst): buf is what the writer holds back, out what dst got
BufNew == [buf |-> <<>>, out |-> <<>>]

\* bufio.Writer.Write: fill the buffer and flush it while p does not fit; a
\* write larger than the buffer goes straight to dst when nothing is buffered
RECURSIVE BufWrite(_, _)
BufWrite(bw, p) ==
    LET avail == BufSize - Len(bw.buf)
    IN IF Len(p) > avail
       THEN IF Len(bw.buf) = 0
            THEN [buf |-> <<>>, out |-> bw.out \o p]
            ELSE BufWrite([buf |-> <<>>,
                           out |-> bw.out \o bw.buf \o SubSeq(p, 1, avail)],
                          SubSeq(p, avail + 1, Len(p)))
       ELSE [buf |-> bw.buf \o p, out |-> bw.out]

\* bufio.Writer.Flush
BufFlush(bw) == [buf |-> <<>>, out |-> bw.out \o bw.buf]

-----------------------------------------------------------------------------
(* internal/enc/aead.go *)

\* IdxLE with the index left out of the encoding
IdxLE_Zero(idx) == LE(0, 8)

\* binary.LittleEndian.PutUint64(.., idx): the chunk index as it enters the
\* nonce and the AAD
IdxLE(idx) == LE(idx, 8)

\* buildAAD without the ObjectID
buildAAD_NoObject(objectID, idx, ptLen) ==
    aeadVersionTag \o IdxLE(idx) \o LE(ptLen, 8)

buildAAD(objectID, idx, ptLen) ==
    aeadVersionTag \o objectID \o IdxLE(idx) \o LE(ptLen, 8)

\* ChunkNonce with the index bytes left at zero
ChunkNonce_NoIndex(p, idx) == SubSeq(p.NBase, 1, 16) \o LE(0, 8)

\* nonce[:16] = NBase[:16], nonce[16:] = LE64(idx)
ChunkNonce(p, idx) == SubSeq(p.NBase, 1, 16) \o IdxLE(idx)

\* the AAD EncryptAEAD seals a chunk of n plaintext bytes with
EncAAD(p, idx, n) == buildAAD(p.ObjectID, idx, n)

\* DecAAD with the tag counted into the plaintext length
DecAAD_WholeLen(p, idx, ctLen) == buildAAD(p.ObjectID, idx, ctLen)

\* the AAD DecryptAEAD opens a chunk of ctLen ciphertext bytes with
DecAAD(p, idx, ctLen) == buildAAD(p.ObjectID, idx, ctLen - aeadTagSize)

\* EncHashed hashing what was written instead of what was read
EncHashed_Cipher(h, pt, ct) == ShaWrite(h, ct)

\* h.Write(buf[:n]) in EncryptAEAD: the plaintext of the chunk is hashed
EncHashed(h, pt, ct) == ShaWrite(h, pt)

\* HdrIsEnd taking a header cut short for the end of the stream
HdrIsEnd_AnyEOF(rerr) == rerr \in {"EOF", "ErrUnexpectedEOF"}

\* errors.Is(err, io.EOF) on the error of reading a chunk header: a clean
\* end of the stream
HdrIsEnd(rerr) == rerr = "EOF"

\* ChunkHeader announcing the plaintext length
ChunkHeader_PlainLen(ct) == LE(Len(ct) - aeadTagSize, HdrSize)

\* binary.LittleEndian.PutUint32(hdr[:], uint32(len(ct))): the header of a
\* chunk announces the length of its ciphertext with the tag
ChunkHeader(ct) == LE(Len(ct), HdrSize)

\* p.ChunkSize <= 0 is replaced by the default
EffectiveParams(p) ==
    IF p.ChunkSize <= 0 THEN [p EXCEPT !.ChunkSize = AEADDefaultChunkSize] ELSE p

NoResult == [Params |-> <<>>, DataKey |-> <<>>, PlainSHA |-> <<>>, TotalPlain |-> 0]

\* a returned error: result nil, dst holds what the bufio.Writer let through;
\* reads counts the io.ReadFull calls made on src (none: src was never read)
Failed(e, idx, bw, reads) ==
    [err |-> e, errIdx |-> idx, res |-> NoResult, sink |-> bw.out, chunks |-> idx,
     reads |-> reads]

\* a return with err == nil: the deferred bw.Flush() runs
Succeeded(key, p, idx, bw, h, total, reads) ==
    [err |-> "nil", errIdx |-> -1,
     res |-> [Params |-> p, DataKey |-> key, PlainSHA |-> ShaSum(h), TotalPlain |-> total],
     sink |-> BufFlush(bw).out, chunks |-> idx, reads |-> reads]

\* the loop of EncryptAEAD
RECURSIVE EncLoop(_, _, _, _, _, _, _)
EncLoop(src, key, p, idx, bw, h, total) ==
    LET rd == ReadFull(src, p.ChunkSize)
        n == Len(rd.got)
    IN IF rd.rerr = "EOF" THEN Succeeded(key, p, idx, bw, h, total, idx + 1)
       ELSE IF rd.rerr \notin {"nil", "ErrUnexpectedEOF"}
       THEN Failed("aead read", idx, bw, idx + 1)
       ELSE IF n = 0 THEN Failed("aead: zero-length chunk", idx, bw, idx + 1)
       ELSE LET ct == Seal(key, ChunkNonce(p, idx), rd.got, EncAAD(p, idx, n))
                hdr == ChunkHeader(ct)
                bw2 == BufWrite(BufWrite(bw, hdr), ct)
                h2 == EncHashed(h, rd.got, ct)
            IN IF rd.rerr = "ErrUnexpectedEOF"
               THEN Succeeded(key, p, idx + 1, bw2, h2, total + n, idx + 1)
               ELSE EncLoop(rd.rest, key, p, idx + 1, bw2, h2, total + n)

\* KeyLenOK letting a key of any length through
KeyLenOK_Any(key) == TRUE

\* len(dataKey) == chacha20poly1305.KeySize, tested before src and dst are
\* wrapped
KeyLenOK(key) == Len(key) = KeySize

EncryptAEAD(src, key, p) ==
    IF ~KeyLenOK(key)
    THEN Failed("aead: dataKey must be 32 bytes", 0, BufNew, 0)
    ELSE EncLoop(src, key, EffectiveParams(p), 0, BufNew, ShaNew, 0)

\* the loop of DecryptAEAD
RECURSIVE DecLoop(_, _, _, _, _, _, _)
DecLoop(src, key, p, idx, bw, h, total) ==
    LET hd == ReadFull(src, HdrSize)
    IN IF hd.rerr # "nil" /\ HdrIsEnd(hd.rerr)
       THEN Succeeded(key, p, idx, bw, h, total, 2 * idx + 1)
       ELSE IF hd.rerr # "nil" THEN Failed("aead read hdr", idx, bw, 2 * idx + 1)
       ELSE LET ctLen == Uint32(hd.got)
            IN IF ctLen < aeadTagSize
               THEN Failed("aead ct too short", idx, bw, 2 * idx + 1)
               ELSE LET rd == ReadFull(hd.rest, ctLen)
                    IN IF rd.rerr # "nil" THEN Failed(rd.rerr, idx, bw, 2 * idx + 2)
                       ELSE LET aad == DecAAD(p, idx, ctLen)
                                op == Open(key, ChunkNonce(p, idx), rd.got, aad)
                            IN IF ~op.ok THEN Failed("aead chunk", idx, bw, 2 * idx + 2)
                               ELSE DecLoop(rd.rest, key, p, idx + 1,
                                            BufWrite(bw, op.pt),
                                            ShaWrite(h, op.pt),
                                            total + Len(op.pt))

DecryptAEAD(src, key, p) ==
    IF ~KeyLenOK(key)
    THEN Failed("aead: dataKey must be 32 bytes", 0, BufNew, 0)
    ELSE DecLoop(src, key, p, 0, BufNew, ShaNew, 0)

-----------------------------------------------------------------------------
(* The AEAD scenario: a plaintext is encrypted, the stored stream is left  *)
(* alone or altered by whoever holds the storage, and is decrypted with    *)
(* the same key and params.                                                *)

PlainBytes == {97, 98}

RECURSIVE SeqsUpTo(_, _)
SeqsUpTo(S, n) ==
    IF n = 0 THEN {<<>>}
    ELSE LET shorter == SeqsUpTo(S, n - 1)
         IN shorter \cup {Append(s, b) : s \in {t \in shorter : Len(t) = n - 1}, b \in S}

Plaintexts == SeqsUpTo(PlainBytes, MaxPlain)

\* "objA", "objB"
ObjA == <<111, 98, 106, 65>>
ObjB == <<111, 98, 106, 66>>

Key1 == Rep(1, KeySize)
Key2 == Rep(2, KeySize)
\* a key of the wrong length
ShortKey == Rep(1, 16)

NBase1 == [i \in 1..NBaseSize |-> i]
NBase2 == [i \in 1..NBaseSize |-> 2 * i + 1]

\* upload sessions: a key with the ObjectID and NBase of its params
Session1 == [key |-> Key1, ObjectID |-> ObjA, NBase |-> NBase1]
Session2 == [key |-> Key2, ObjectID |-> ObjB, NBase |-> NBase2]
\* another object under the key and NBase of Session1
Session3 == [key |-> Key1, ObjectID |-> ObjB, NBase |-> NBase1]
\* Session1 with a key of the wrong length
SessionBad == [key |-> ShortKey, ObjectID |-> ObjA, NBase |-> NBase1]

ChunkSizes == {0, SmallChunk}

ParamsOf(s, cs) == [ObjectID |-> s.ObjectID, ChunkSize |-> cs, NBase |-> s.NBase]

NoTamper == [kind |-> "none", at |-> 0, origin |-> <<>>]

\* the pipeline variables while no pipeline runs
PipeIdle ==
    /\ nStages = 0
    /\ faulty = {}
    /\ mustFail = {}
    /\ mainPc = "idle"
    /\ spawned = 0
    /\ wg = 0
    /\ errCh = <<>>
    /\ cancelled = FALSE
    /\ result = "none"
    /\ pipes = <<>>
    /\ stages = <<>>
    /\ offered = <<>>
    /\ got = <<>>
    /\ readEnd = <<>>
    /\ errLog = <<>>

\* the codec variables while no codec scenario runs
AEADIdle ==
    /\ phase = "idle"
    /\ plain = <<>>
    /\ srcEnd = "EOF"
    /\ dataKey = <<>>
    /\ params = [ObjectID |-> <<>>, ChunkSize |-> 0, NBase |-> <<>>]
    /\ encRes = Failed("none", 0, BufNew, 0)
    /\ stream = <<>>
    /\ tamper = NoTamper
    /\ decRes = Failed("none", 0, BufNew, 0)

\* no compressor made
NoCompressor == [kind |-> "none"]

\* the compressor variables while no compressor scenario runs
CompIdle ==
    /\ comp = NoCompressor
    /\ written = <<>>

\* no Execute call
NoCall == [pc |-> "idle"]

\* the bucket and the two clients while no transfer scenario runs
XferIdle ==
    /\ store = <<>>
    /\ up = NoCall
    /\ down = NoCall
    /\ fresh = 0
    /\ sealLog = {}

\* the frames of a well-formed stream: each a 4-byte header and its body
RECURSIVE Frames(_)
Frames(s) ==
    IF Len(s) < HdrSize THEN <<>>
    ELSE LET n == HdrSize + Uint32(SubSeq(s, 1, HdrSize))
         IN <<SubSeq(s, 1, n)>> \o Frames(SubSeq(s, n + 1, Len(s)))

RECURSIVE Concat(_)
Concat(fs) == IF fs = <<>> THEN <<>> ELSE Head(fs) \o Concat(Tail(fs))

\* 0-based indices 0..n-1
Indices(n) == [i \in 1..n |-> i - 1]

InitAEAD ==
    /\ phase = "start"
    /\ plain \in Plaintexts
    /\ srcEnd \in {"EOF", "ErrSrc"}
    /\ \E s \in {Session1, Session2, SessionBad}, cs \in ChunkSizes :
          /\ dataKey = s.key
          /\ params = ParamsOf(s, cs)
    /\ encRes = Failed("none", 0, BufNew, 0)
    /\ stream = <<>>
    /\ tamper = NoTamper
    /\ decRes = Failed("none", 0, BufNew, 0)
    /\ PipeIdle
    /\ CompIdle
    /\ XferIdle

\* EncryptAEAD(dst, src, dataKey, p); dst becomes the stored stream
Encrypt ==
    /\ phase = "start"
    /\ LET r == EncryptAEAD(Reader(plain, srcEnd), dataKey, params)
       IN /\ encRes' = r
          /\ stream' = r.sink
          /\ phase' = IF r.err = "nil" THEN "encrypted" ELSE "encfailed"
    /\ UNCHANGED <<pipeVars, compVars, xferVars, plain, srcEnd, dataKey, params, tamper, decRes>>

Bits == 0..7

\* one bit of the ciphertext-with-tag bytes of chunk c is flipped
FlipCiphertextBit ==
    /\ phase = "encrypted"
    /\ LET fs == Frames(stream)
       IN \E c \in 1..Len(fs) : \E j \in (HdrSize + 1)..Len(fs[c]) : \E k \in Bits :
             /\ stream' = Concat([fs EXCEPT ![c][j] = FlipBit(@, k)])
             /\ tamper' = [kind |-> "flip", at |-> c - 1, origin |-> Indices(Len(fs))]
    /\ phase' = "tampered"
    /\ UNCHANGED <<pipeVars, compVars, xferVars, plain, srcEnd, dataKey, params, encRes, decRes>>

\* the stream is cut inside chunk c: after 1..3 header bytes, or after the
\* header and fewer than all of its body bytes
CutInsideChunk ==
    /\ phase = "encrypted"
    /\ LET fs == Frames(stream)
       IN \E c \in 1..Len(fs) : \E keep \in 1..(Len(fs[c]) - 1) :
             /\ stream' = Concat(SubSeq(fs, 1, c - 1)) \o SubSeq(fs[c], 1, keep)
             /\ tamper' = [kind |-> IF keep < HdrSize THEN "cuthdr" ELSE "cutbody",
                           at |-> c - 1, origin |-> Indices(c - 1)]
    /\ phase' = "tampered"
    /\ UNCHANGED <<pipeVars, compVars, xferVars, plain, srcEnd, dataKey, params, encRes, decRes>>

\* only the first m whole chunks are kept, m < n
TruncateChunks ==
    /\ phase = "encrypted"
    /\ LET fs == Frames(stream)
       IN \E m \in 0..(Len(fs) - 1) :
             /\ stream' = Concat(SubSeq(fs, 1, m))
             /\ tamper' = [kind |-> "truncate", at |-> m, origin |-> Indices(m)]
    /\ phase' = "tampered"
    /\ UNCHANGED <<pipeVars, compVars, xferVars, plain, srcEnd, dataKey, params, encRes, decRes>>

\* the chunks are put in another order (a swap of two chunks among them)
ReorderChunks ==
    /\ phase = "encrypted"
    /\ LET fs == Frames(stream)
           n == Len(fs)
       IN \E perm \in Permutations(1..n) :
             /\ \E i \in 1..n : perm[i] # i
             /\ stream' = Concat([i \in 1..n |-> fs[perm[i]]])
             /\ tamper' = [kind |-> "reorder", at |-> 0,
                           origin |-> [i \in 1..n |-> perm[i] - 1]]
    /\ phase' = "tampered"
    /\ UNCHANGED <<pipeVars, compVars, xferVars, plain, srcEnd, dataKey, params, encRes, decRes>>

\* a copy of chunk c is inserted before position pos
DuplicateChunk ==
    /\ phase = "encrypted"
    /\ LET fs == Frames(stream)
           n == Len(fs)
       IN \E c \in 1..n : \E pos \in 1..(n + 1) :
             LET org == [i \in 1..(n + 1) |->
                           IF i < pos THEN i - 1 ELSE IF i = pos THEN c - 1 ELSE i - 2]
             IN /\ stream' = Concat([i \in 1..(n + 1) |-> fs[org[i] + 1]])
                /\ tamper' = [kind |-> "duplicate", at |-> pos - 1, origin |-> org]
    /\ phase' = "tampered"
    /\ UNCHANGED <<pipeVars, compVars, xferVars, plain, srcEnd, dataKey, params, encRes, decRes>>

\* the other byte of PlainBytes at every position
Other(pt) == [i \in 1..Len(pt) |-> IF pt[i] = 97 THEN 98 ELSE 97]

\* chunk c is replaced by chunk c of another object's stream: a plaintext of
\* the same length, encrypted under that object's ObjectID, key and NBase
SpliceChunk ==
    /\ phase = "encrypted"
    /\ LET fs == Frames(stream)
       IN \E c \in 1..Len(fs) : \E d \in {Session1, Session2, Session3} :
          \E dp \in {plain, Other(plain)} :
             /\ d.ObjectID # params.ObjectID
             /\ LET donor == EncryptAEAD(Reader(dp, "EOF"), d.key,
                                         ParamsOf(d, params.ChunkSize))
                IN stream' = Concat([fs EXCEPT ![c] = Frames(donor.sink)[c]])
             /\ tamper' = [kind |-> "splice", at |-> c - 1, origin |-> Indices(Len(fs))]
    /\ phase' = "tampered"
    /\ UNCHANGED <<pipeVars, compVars, xferVars, plain, srcEnd, dataKey, params, encRes, decRes>>

\* DecryptAEAD(dst, src, dataKey, p) on the stored stream, same key and params
Decrypt ==
    /\ phase \in {"encrypted", "tampered"}
    /\ decRes' = DecryptAEAD(Reader(stream, "EOF"), dataKey, params)
    /\ phase' = "decrypted"
    /\ UNCHANGED <<pipeVars, compVars, xferVars, plain, srcEnd, dataKey, params, encRes, stream, tamper>>

\* keys of a wrong length: none, half a key, one byte too many
WrongKeys == {<<>>, ShortKey, Rep(1, KeySize + 1)}

\* DecryptAEAD(dst, src, key, p) on the stored stream by a caller whose key
\* has the wrong length
DecryptWrongKey ==
    /\ phase = "encrypted"
    /\ \E k \in WrongKeys :
          /\ decRes' = DecryptAEAD(Reader(stream, "EOF"), k, params)
          /\ tamper' = [kind |-> "wrongkey", at |-> Len(k), origin |-> <<>>]
    /\ phase' = "decrypted"
    /\ UNCHANGED <<pipeVars, compVars, xferVars, plain, srcEnd, dataKey, params, encRes, stream>>

\* DecryptAEAD(dst, src, dataKey, p) on the stored stream with the key,
\* ObjectID and NBase of the upload and a smaller ChunkSize in p
DecryptSmallerChunkSize ==
    /\ phase = "encrypted"
    /\ \E cs \in 1..(SmallChunk - 1) :
          /\ decRes' = DecryptAEAD(Reader(stream, "EOF"), dataKey,
                                   [params EXCEPT !.ChunkSize = cs])
          /\ tamper' = [kind |-> "chunksize", at |-> cs, origin |-> <<>>]
    /\ phase' = "decrypted"
    /\ UNCHANGED <<pipeVars, compVars, xferVars, plain, srcEnd, dataKey, params, encRes, stream>>

NextAEAD ==
    \/ Encrypt
    \/ FlipCiphertextBit
    \/ CutInsideChunk
    \/ TruncateChunks
    \/ ReorderChunks
    \/ DuplicateChunk
    \/ SpliceChunk
    \/ Decrypt
    \/ DecryptWrongKey
    \/ DecryptSmallerChunkSize

SpecAEAD == InitAEAD /\ [][NextAEAD]_vars

-----------------------------------------------------------------------------
(* Claims about the AEAD stream codec *)

Decrypted(kinds) == phase = "decrypted" /\ tamper.kind \in kinds

\* C1: round trip. EncryptAEAD succeeds on every plaintext read to a clean EOF
\* under a 32-byte key, and DecryptAEAD with the same key and params on the
\* bytes it wrote succeeds and writes exactly the plaintext (with the same
\* TotalPlain).
C1_RoundTrip ==
    /\ (phase = "encfailed") => (Len(dataKey) # KeySize \/ srcEnd # "EOF")
    /\ Decrypted({"none"}) =>
          /\ decRes.err = "nil"
          /\ decRes.sink = plain
          /\ decRes.res.TotalPlain = Len(plain)
          /\ encRes.res.TotalPlain = Len(plain)

\* a round trip of several chunks, the last one full
C1_Witness ==
    /\ Decrypted({"none"})
    /\ params.ChunkSize = SmallChunk
    /\ Len(plain) = 2 * SmallChunk
    /\ decRes.chunks = 2
    /\ decRes.sink = plain

\* C2: the PlainSHA EncryptAEAD returns is the SHA-256 of the plaintext, the
\* PlainSHA DecryptAEAD returns on the untouched stream is the same value, and
\* VerifySHA256 of the two is true.
C2_PlainSHA ==
    /\ (phase \in {"encrypted", "tampered", "decrypted"}) =>
          encRes.res.PlainSHA = ShaSum(ShaWrite(ShaNew, plain))
    /\ Decrypted({"none"}) =>
          /\ decRes.res.PlainSHA = ShaSum(ShaWrite(ShaNew, plain))
          /\ VerifySHA256(encRes.res.PlainSHA, decRes.res.PlainSHA)

\* a round trip of a plaintext hashed in two pieces, the second one short
C2_Witness ==
    /\ Decrypted({"none"})
    /\ params.ChunkSize = SmallChunk
    /\ Len(plain) = SmallChunk + 1
    /\ VerifySHA256(encRes.res.PlainSHA, decRes.res.PlainSHA)
    /\ Len(decRes.res.PlainSHA) = ShaSize

\* C3: a stream with one bit of a chunk's ciphertext-with-tag flipped, or cut
\* inside a chunk (after 1..3 header bytes, or after the header and before
\* the end of the body), makes DecryptAEAD return an error.
C3_TamperDetected ==
    Decrypted({"flip", "cuthdr", "cutbody"}) =>
        /\ decRes.err # "nil"
        /\ (tamper.kind = "flip") => (decRes.err = "aead chunk" /\ decRes.errIdx = tamper.at)
        /\ (tamper.kind = "cuthdr") => decRes.err = "aead read hdr"
        /\ (tamper.kind = "cutbody") => decRes.err \in {"EOF", "ErrUnexpectedEOF"}

\* a flipped bit in the second chunk, found after the first chunk opened
C3_Witness ==
    /\ Decrypted({"flip"})
    /\ tamper.at = 1
    /\ decRes.err = "aead chunk"
    /\ decRes.errIdx = 1

\* the first position of a rearranged stream holding a chunk sealed for
\* another index (0-based)
FirstMisplaced(origin) ==
    CHOOSE i \in 0..(Len(origin) - 1) :
        /\ origin[i + 1] # i
        /\ \A j \in 0..(i - 1) : origin[j + 1] = j

\* C4: a chunk authenticates only at the index it was sealed for. A stream
\* whose chunks were reordered (two of them swapped included) or that holds
\* an inserted copy of a chunk makes DecryptAEAD fail at the first position
\* whose chunk was sealed for another index.
C4_PositionBound ==
    Decrypted({"reorder", "duplicate"}) =>
        /\ \E i \in 1..Len(tamper.origin) : tamper.origin[i] # i - 1
        /\ decRes.err = "aead chunk"
        /\ decRes.errIdx = FirstMisplaced(tamper.origin)

\* three chunks, the last two swapped: chunk 0 opens, position 1 fails
C4_Witness ==
    /\ Decrypted({"reorder"})
    /\ tamper.origin = <<0, 2, 1>>
    /\ decRes.err = "aead chunk"
    /\ decRes.errIdx = 1

\* C5 as claimed: a stream cut down to its first m < n whole chunks makes
\* DecryptAEAD return an error.
C5_TruncationDetected ==
    Decrypted({"truncate"}) => decRes.err # "nil"

\* C6: a stream in which chunk i was replaced by chunk i of another object's
\* stream (same index, same plaintext length, the other object's ObjectID,
\* key and NBase) makes DecryptAEAD fail at chunk i.
C6_SpliceRejected ==
    Decrypted({"splice"}) =>
        /\ decRes.err = "aead chunk"
        /\ decRes.errIdx = tamper.at

\* the second chunk replaced by one sealed for another object
C6_Witness ==
    /\ Decrypted({"splice"})
    /\ tamper.at = 1
    /\ decRes.err = "aead chunk"
    /\ decRes.errIdx = 1

\* C26: EncryptAEAD and DecryptAEAD called with a key that is not exactly 32
\* bytes long return an error and a nil result, having read nothing from the
\* source and written nothing to the sink.
C26_WrongKeyRefused ==
    /\ (Len(dataKey) # KeySize /\ phase # "start") =>
          /\ phase = "encfailed"
          /\ encRes.err # "nil"
          /\ encRes.res = NoResult
          /\ encRes.reads = 0
          /\ encRes.sink = <<>>
    /\ Decrypted({"wrongkey"}) =>
          /\ decRes.err # "nil"
          /\ decRes.res = NoResult
          /\ decRes.reads = 0
          /\ decRes.sink = <<>>

\* a stored stream of two chunks handed to DecryptAEAD with a 33-byte key
C26_Witness ==
    /\ Decrypted({"wrongkey"})
    /\ tamper.at = KeySize + 1
    /\ Len(Frames(stream)) = 2
    /\ decRes.err = "aead: dataKey must be 32 bytes"
    /\ decRes.reads = 0

\* the number of chunks of a plaintext of n bytes cut every c bytes
ChunksOf(n, c) == (n + c - 1) \div c

\* the plaintext length of chunk i (0-based) of such a plaintext
PlainLenOf(n, c, i) == IF i < ChunksOf(n, c) - 1 THEN c ELSE n - i * c

\* C28: the layout of what EncryptAEAD writes for a plaintext P under chunk
\* size C: no chunk for an empty P, otherwise ceil(|P|/C) chunks sealed for
\* the indices 0, 1, 2, ...; each but the last holds C plaintext bytes, the
\* last 1..C, none is empty; each 4-byte little-endian header is the
\* plaintext length plus 16; the output is the sum of 4 + length + 16 bytes
\* long; TotalPlain is |P|.
C28_ChunkLayout ==
    (phase = "encrypted") =>
        LET c == EffectiveParams(params).ChunkSize
            n == ChunksOf(Len(plain), c)
            out == encRes.sink
            off(i) == i * (HdrSize + c + aeadTagSize)
            len(i) == PlainLenOf(Len(plain), c, i)
        IN /\ encRes.chunks = n
           /\ (plain = <<>>) => (n = 0 /\ out = <<>>)
           /\ encRes.res.TotalPlain = Len(plain)
           /\ \A i \in 0..(n - 1) : len(i) \in 1..c
           /\ Len(out) = IF n = 0 THEN 0
                         ELSE off(n - 1) + HdrSize + len(n - 1) + aeadTagSize
           /\ \A i \in 0..(n - 1) :
                 /\ SubSeq(out, off(i) + 1, off(i) + HdrSize)
                       = LE(len(i) + aeadTagSize, HdrSize)
                 /\ LET ct == SubSeq(out, off(i) + HdrSize + 1,
                                     off(i) + HdrSize + len(i) + aeadTagSize)
                        op == Open(dataKey, ChunkNonce(params, i), ct,
                                   EncAAD(params, i, len(i)))
                    IN /\ op.ok
                       /\ op.pt = SubSeq(plain, i * c + 1, i * c + len(i))

\* a plaintext one byte longer than the chunk size: a full chunk and a last
\* chunk of one byte
C28_Witness ==
    /\ phase = "encrypted"
    /\ params.ChunkSize = SmallChunk
    /\ Len(plain) = SmallChunk + 1
    /\ encRes.chunks = 2
    /\ Len(stream) = 2 * (HdrSize + aeadTagSize) + SmallChunk + 1

\* the first chunk of the altered stream that cannot authenticate: the
\* altered or replaced one, or the first one standing at another index than
\* the one it was sealed for
FirstBadChunk ==
    IF tamper.kind \in {"flip", "splice"} THEN tamper.at
    ELSE FirstMisplaced(tamper.origin)

\* C27: when a chunk fails authentication, DecryptAEAD's error names the
\* 0-based index i of the first chunk that failed; the chunks 0..i-1 were
\* opened in order, and no plaintext of chunk i or of a later chunk is
\* written to the sink (what the sink holds is the beginning of the plaintext
\* of chunks 0..i-1). A corrupted body of the first chunk is reported as
\* index 0.
C27_AuthFailureIndex ==
    Decrypted({"flip", "splice", "reorder", "duplicate"}) =>
        LET c == EffectiveParams(params).ChunkSize
            i == FirstBadChunk
        IN /\ decRes.err = "aead chunk"
           /\ decRes.errIdx = i
           /\ decRes.chunks = i
           /\ decRes.res = NoResult
           /\ IsPrefix(decRes.sink, SubSeq(plain, 1, Min(i * c, Len(plain))))
           /\ (i = 0) => decRes.sink = <<>>

\* a flipped bit in the third chunk: the error names index 2 and the sink
\* holds plaintext of the first two chunks only
C27_Witness ==
    /\ Decrypted({"flip"})
    /\ tamper.at = 2
    /\ decRes.err = "aead chunk"
    /\ decRes.errIdx = 2
    /\ decRes.sink = SubSeq(plain, 1, 2 * SmallChunk)
    /\ Len(plain) > 2 * SmallChunk

\* C29 as claimed: every chunk DecryptAEAD accepts has a plaintext of 1 to
\* p.ChunkSize bytes, and of exactly p.ChunkSize bytes unless it is the last,
\* for the p it was called with; a stream that authenticates and was
\* encrypted with a larger ChunkSize under the same key, ObjectID and NBase
\* is rejected.
C29_ChunkBoundsEnforced ==
    (Decrypted({"chunksize"}) /\ decRes.err = "nil") =>
        LET c == EffectiveParams(params).ChunkSize
            n == ChunksOf(Len(plain), c)
            len(i) == PlainLenOf(Len(plain), c, i)
        IN \A i \in 0..(n - 1) :
              /\ len(i) \in 1..tamper.at
              /\ (i < n - 1) => len(i) = tamper.at

-----------------------------------------------------------------------------
(* internal/pipeline: pipeGraph.  One goroutine per stage; pipes[i] is the *)
(* io.Pipe between stage i and stage i+1.  An io.Pipe holds no bytes: a    *)
(* Write parks its bytes until Reads have taken them all or the pipe is    *)
(* closed, and each end keeps the first error it was closed with.          *)

StageErrs == <<"E1", "E2", "E3", "E4", "E5">>
\* the error stage i's function returns on its own account
ErrOf(i) == StageErrs[i]

\* io.Pipe()
NewPipe == [done |-> FALSE, rerr |-> "nil", werr |-> "nil", pending |-> <<>>]

\* StoreOnce keeping the last error given
StoreOnce_Last(old, e) == e

\* an end keeps the first error stored in it
StoreOnce(old, e) == IF old = "nil" THEN e ELSE old

\* PipeReader.CloseWithError(err)
CloseRead(pp, e) ==
    [pp EXCEPT !.rerr = StoreOnce(@, IF e = "nil" THEN "ErrClosedPipe" ELSE e),
               !.done = TRUE]

\* PipeWriter.CloseWithError(err); Close() is CloseWithError(nil)
CloseWrite(pp, e) ==
    [pp EXCEPT !.werr = StoreOnce(@, IF e = "nil" THEN "EOF" ELSE e),
               !.done = TRUE]

\* what a Read on a closed pipe returns
ReadCloseError(pp) ==
    IF pp.rerr = "nil" /\ pp.werr # "nil" THEN pp.werr ELSE "ErrClosedPipe"

\* what a Write on a closed pipe returns
WriteCloseError(pp) ==
    IF pp.werr = "nil" /\ pp.rerr # "nil" THEN pp.rerr ELSE "ErrClosedPipe"

NewStage(data) == [pc |-> "unstarted", hold |-> data, ret |-> "none", k |-> 0]

\* the bytes the first stage produces
SrcData(n) == [i \in 1..n |-> i]

PipeScenario(n, d, f, m) ==
    /\ nStages = n
    /\ faulty = f
    /\ mustFail = m
    /\ mainPc = "start"
    /\ spawned = 0
    /\ wg = 0
    /\ errCh = <<>>
    /\ cancelled = FALSE
    /\ result = "none"
    /\ pipes = <<>>
    /\ stages = [i \in 1..n |-> NewStage(IF i = 1 /\ n > 1 THEN SrcData(d) ELSE <<>>)]
    /\ offered = [i \in 1..(n - 1) |-> <<>>]
    /\ got = [i \in 1..(n - 1) |-> <<>>]
    /\ readEnd = [i \in 1..(n - 1) |-> "none"]
    /\ errLog = <<>>

\* any number of stages, any of which may fail on its own account
InitPipe ==
    /\ AEADIdle
    /\ CompIdle
    /\ XferIdle
    /\ \E n \in 0..MaxStages, d \in 0..MaxData :
          \E f \in SUBSET (1..n) : PipeScenario(n, d, f, {})

\* exactly one stage fails, at some point of its run; the others only read
\* to EOF or error and write
InitFailFast ==
    /\ AEADIdle
    /\ CompIdle
    /\ XferIdle
    /\ \E n \in 1..MaxStages, d \in 0..MaxData :
          \E b \in 1..n : PipeScenario(n, d, {b}, {b})

\* ---- pipeGraph itself ----

\* len(stages) == 0 returns nil; otherwise the pipes are made
Start ==
    /\ mainPc = "start"
    /\ IF nStages = 0
       THEN /\ mainPc' = "returned"
            /\ result' = "nil"
            /\ pipes' = pipes
       ELSE /\ mainPc' = "spawn"
            /\ result' = result
            /\ pipes' = [i \in 1..(nStages - 1) |-> NewPipe]
    /\ UNCHANGED <<aeadVars, compVars, xferVars, nStages, faulty, mustFail, spawned, wg, errCh, cancelled,
                   stages, offered, got, readEnd, errLog>>

\* wg.Add(1); go func(i, s)
Spawn ==
    /\ mainPc = "spawn"
    /\ wg' = wg + 1
    /\ spawned' = spawned + 1
    /\ stages' = [stages EXCEPT ![spawned + 1].pc = "run"]
    /\ mainPc' = IF spawned + 1 = nStages THEN "wait" ELSE "spawn"
    /\ UNCHANGED <<aeadVars, compVars, xferVars, nStages, faulty, mustFail, errCh, cancelled, result, pipes,
                   offered, got, readEnd, errLog>>

\* WaitOver without the wait
WaitOver_NoWait(n) == TRUE

\* wg.Wait() returns once the counter is zero
WaitOver(n) == n = 0

\* FinalResult that never looks into errCh
FinalResult_Nil(ch) == "nil"

\* select { case err := <-errCh: return err; default: return nil }
FinalResult(ch) == IF ch # <<>> THEN Head(ch) ELSE "nil"

\* wg.Wait() is over; select on errCh; the deferred cancel() runs
WaitReturn ==
    /\ mainPc = "wait"
    /\ WaitOver(wg)
    /\ result' = FinalResult(errCh)
    /\ errCh' = IF errCh # <<>> THEN Tail(errCh) ELSE errCh
    /\ cancelled' = TRUE
    /\ mainPc' = "returned"
    /\ UNCHANGED <<aeadVars, compVars, xferVars, nStages, faulty, mustFail, spawned, wg, pipes, stages,
                   offered, got, readEnd, errLog>>

\* ---- a stage function: s(ctx, r, w) ----

\* the stage function returns e: nil goes on to close the outbound pipe,
\* an error to the select on errCh
Returned(st, i, e) ==
    IF e = "nil"
    THEN [st EXCEPT !.ret = "nil", !.hold = <<>>,
                    !.pc = "closeOut"]
    ELSE [st EXCEPT !.ret = e, !.hold = <<>>, !.pc = "select"]

\* what a stage returns when its work is done
EndOfWork(i) == IF i \in mustFail THEN ErrOf(i) ELSE "nil"

\* the stage function returns an error of its own
StageFail(i) ==
    /\ stages[i].pc = "run"
    /\ i \in faulty
    /\ stages' = [stages EXCEPT ![i] = Returned(@, i, ErrOf(i))]
    /\ UNCHANGED <<aeadVars, compVars, xferVars, nStages, faulty, mustFail, mainPc, spawned, wg, errCh,
                   cancelled, result, pipes, offered, got, readEnd, errLog>>

\* the first stage has written all it had (or has no writer)
StageFinish(i) ==
    /\ stages[i].pc = "run"
    /\ i = 1
    /\ stages[i].hold = <<>>
    /\ stages' = [stages EXCEPT ![i] = Returned(@, i, EndOfWork(i))]
    /\ UNCHANGED <<aeadVars, compVars, xferVars, nStages, faulty, mustFail, mainPc, spawned, wg, errCh,
                   cancelled, result, pipes, offered, got, readEnd, errLog>>

\* w.Write(b) is called with some of the bytes in hand: on a closed pipe it
\* fails at once and the stage returns the error, otherwise the bytes are
\* parked for the reader
StageWrite(i) ==
    /\ stages[i].pc = "run"
    /\ i < nStages
    /\ stages[i].hold # <<>>
    /\ \E c \in 1..Len(stages[i].hold) :
          IF pipes[i].done
          THEN /\ stages' = [stages EXCEPT ![i] = Returned(@, i, WriteCloseError(pipes[i]))]
               /\ UNCHANGED <<pipes, offered>>
          ELSE /\ stages' = [stages EXCEPT ![i].pc = "writing",
                                           ![i].hold = SubSeq(@, c + 1, Len(@))]
               /\ pipes' = [pipes EXCEPT ![i].pending = SubSeq(stages[i].hold, 1, c)]
               /\ offered' = [offered EXCEPT ![i] = @ \o SubSeq(stages[i].hold, 1, c)]
    /\ UNCHANGED <<aeadVars, compVars, xferVars, nStages, faulty, mustFail, mainPc, spawned, wg, errCh,
                   cancelled, result, got, readEnd, errLog>>

\* a parked Write finds the pipe closed and returns its error
WriteAbort(i) ==
    /\ stages[i].pc = "writing"
    /\ pipes[i].done
    /\ stages' = [stages EXCEPT ![i] = Returned(@, i, WriteCloseError(pipes[i]))]
    /\ pipes' = [pipes EXCEPT ![i].pending = <<>>]
    /\ UNCHANGED <<aeadVars, compVars, xferVars, nStages, faulty, mustFail, mainPc, spawned, wg, errCh,
                   cancelled, result, offered, got, readEnd, errLog>>

\* a stage that takes any read error for the end of its input
ReadResult_Swallow(e, done) == done

\* what the stage function returns once its Read has returned e: on io.EOF
\* the copy is over and the stage ends its work, any other error comes back
\* from io.Copy or io.ReadFull and the stage returns it
ReadResult(e, done) == IF e = "EOF" THEN done ELSE e

\* a Read that found the pipe closed: io.EOF ends the stage's work, any
\* other error is returned
ReadClosed(i) ==
    LET e == ReadCloseError(pipes[i - 1])
    IN /\ stages' = [stages EXCEPT ![i] = Returned(@, i, ReadResult(e, EndOfWork(i)))]
       /\ readEnd' = [readEnd EXCEPT ![i - 1] = e]

\* r.Read(buf) is called with nothing in hand: on a closed pipe it fails at
\* once, otherwise it waits for a Write
StageRead(i) ==
    /\ stages[i].pc = "run"
    /\ i > 1
    /\ stages[i].hold = <<>>
    /\ IF pipes[i - 1].done
       THEN ReadClosed(i)
       ELSE /\ stages' = [stages EXCEPT ![i].pc = "reading"]
            /\ readEnd' = readEnd
    /\ UNCHANGED <<aeadVars, compVars, xferVars, nStages, faulty, mustFail, mainPc, spawned, wg, errCh,
                   cancelled, result, pipes, offered, got, errLog>>

\* a waiting Read finds the pipe closed
ReadAbort(i) ==
    /\ stages[i].pc = "reading"
    /\ pipes[i - 1].done
    /\ ReadClosed(i)
    /\ UNCHANGED <<aeadVars, compVars, xferVars, nStages, faulty, mustFail, mainPc, spawned, wg, errCh,
                   cancelled, result, pipes, offered, got, errLog>>

\* a waiting Read meets a parked Write on pipes[i]: up to len(buf) bytes pass,
\* the Read returns them, the Write returns once all its bytes are taken.
\* The last stage consumes what it reads; the others forward it.
Transfer(i) ==
    /\ i < nStages
    /\ stages[i].pc = "writing"
    /\ stages[i + 1].pc = "reading"
    /\ LET b == pipes[i].pending
           n == Min(ReadBuf, Len(b))
       IN /\ pipes' = [pipes EXCEPT ![i].pending = SubSeq(b, n + 1, Len(b))]
          /\ got' = [got EXCEPT ![i] = @ \o SubSeq(b, 1, n)]
          /\ stages' = [stages EXCEPT
                ![i].pc = IF n = Len(b) THEN "run" ELSE "writing",
                ![i + 1].pc = "run",
                ![i + 1].hold = IF i + 1 < nStages THEN SubSeq(b, 1, n) ELSE <<>>]
    /\ UNCHANGED <<aeadVars, compVars, xferVars, nStages, faulty, mustFail, mainPc, spawned, wg, errCh,
                   cancelled, result, offered, readEnd, errLog>>

\* ---- the goroutine around the stage function ----

\* whether the select sends on errCh (its buffer has room) or takes default
SelectSends(ch) == Len(ch) < 1

\* the WaitGroup counter after the deferred wg.Done() of a goroutine
WgDone(n) == n - 1

\* select { case errCh <- err: ...; default: }; on default the goroutine
\* returns
Select(i) ==
    /\ stages[i].pc = "select"
    /\ errLog' = Append(errLog, stages[i].ret)
    /\ IF SelectSends(errCh)
       THEN /\ errCh' = Append(errCh, stages[i].ret)
            /\ stages' = [stages EXCEPT ![i].pc = IF nStages > 1 THEN "closing" ELSE "cancel",
                                        ![i].k = 1]
            /\ wg' = wg
       ELSE /\ errCh' = errCh
            /\ stages' = [stages EXCEPT ![i].pc = "exit"]
            /\ wg' = WgDone(wg)
    /\ UNCHANGED <<aeadVars, compVars, xferVars, nStages, faulty, mustFail, mainPc, spawned, cancelled,
                   result, pipes, offered, got, readEnd>>

\* CloseSteps of a loop that stops after the first pipe
CloseSteps_FirstPipe(n) == IF n > 1 THEN 2 ELSE 0

\* the ends closeAllWithError closes, in its order: pipes[1].r, pipes[1].w,
\* pipes[2].r, ...
CloseSteps(n) == 2 * (n - 1)

\* closeAllWithError(err), one CloseWithError call at a time
CloseAllStep(i) ==
    /\ stages[i].pc = "closing"
    /\ LET k == stages[i].k
           j == (k + 1) \div 2
       IN /\ pipes' = [pipes EXCEPT ![j] = IF k % 2 = 1
                                            THEN CloseRead(@, stages[i].ret)
                                            ELSE CloseWrite(@, stages[i].ret)]
          /\ stages' = [stages EXCEPT ![i].k = k + 1,
                                      ![i].pc = IF k = CloseSteps(nStages)
                                                THEN "cancel" ELSE "closing"]
    /\ UNCHANGED <<aeadVars, compVars, xferVars, nStages, faulty, mustFail, mainPc, spawned, wg, errCh,
                   cancelled, result, offered, got, readEnd, errLog>>

\* cancel(), and the goroutine returns
Cancel(i) ==
    /\ stages[i].pc = "cancel"
    /\ cancelled' = TRUE
    /\ stages' = [stages EXCEPT ![i].pc = "exit"]
    /\ wg' = WgDone(wg)
    /\ UNCHANGED <<aeadVars, compVars, xferVars, nStages, faulty, mustFail, mainPc, spawned, errCh,
                   result, pipes, offered, got, readEnd, errLog>>

\* CloseOnNil that leaves the pipe open
CloseOnNil_Skip(pp) == pp

\* _ = pipes[i].w.Close()
CloseOnNil(pp) == CloseWrite(pp, "nil")

\* the stage function returned nil: if i < len(pipes) { pipes[i].w.Close() },
\* and the goroutine returns
CloseOut(i) ==
    /\ stages[i].pc = "closeOut"
    /\ pipes' = IF i < nStages THEN [pipes EXCEPT ![i] = CloseOnNil(@)] ELSE pipes
    /\ stages' = [stages EXCEPT ![i].pc = "exit"]
    /\ wg' = WgDone(wg)
    /\ UNCHANGED <<aeadVars, compVars, xferVars, nStages, faulty, mustFail, mainPc, spawned, errCh,
                   cancelled, result, offered, got, readEnd, errLog>>

NextPipe ==
    \/ Start
    \/ Spawn
    \/ WaitReturn
    \/ \E i \in 1..nStages : StageFail(i)
    \/ \E i \in 1..nStages : StageFinish(i)
    \/ \E i \in 1..nStages : StageWrite(i)
    \/ \E i \in 1..nStages : WriteAbort(i)
    \/ \E i \in 1..nStages : StageRead(i)
    \/ \E i \in 1..nStages : ReadAbort(i)
    \/ \E i \in 1..nStages : Transfer(i)
    \/ \E i \in 1..nStages : Select(i)
    \/ \E i \in 1..nStages : CloseAllStep(i)
    \/ \E i \in 1..nStages : Cancel(i)
    \/ \E i \in 1..nStages : CloseOut(i)

SpecPipe == InitPipe /\ [][NextPipe]_vars

\* some goroutine that can run does run
SpecFailFast == InitFailFast /\ [][NextPipe]_vars /\ WF_vars(NextPipe)

-----------------------------------------------------------------------------
(* Claims about pipeGraph *)

PipeReturned == mainPc = "returned"

\* C7: fail-fast. With one stage that returns an error E at some point of its
\* run and all others only reading to EOF or error and writing, pipeGraph
\* terminates (no goroutine stays parked on a pipe) and returns exactly E.
C7_FailFast ==
    <>(PipeReturned /\ \E b \in faulty : result = ErrOf(b))

\* the middle of three stages failed while its neighbours were on the pipes:
\* both were released with a pipe error, and pipeGraph returned the
\* middle stage's error
C7_Witness ==
    /\ PipeReturned
    /\ nStages = 3
    /\ faulty = {2}
    /\ result = ErrOf(2)
    /\ stages[1].ret # "nil"
    /\ stages[3].ret = "ErrClosedPipe"

\* C8: pipeGraph returns only after every stage goroutine is over, with or
\* without errors.
C8_JoinsAllStages ==
    /\ PipeReturned => \A i \in 1..nStages : stages[i].pc = "exit" /\ stages[i].ret # "none"
    /\ (result # "none") => PipeReturned

\* three stages, two of which failed, all over when pipeGraph returned
C8_Witness ==
    /\ PipeReturned
    /\ nStages = 3
    /\ Len(errLog) >= 2
    /\ \A i \in 1..nStages : stages[i].pc = "exit"

\* C9: pipeGraph returns nil exactly when every stage returned nil; otherwise
\* it returns the error that reached the select first, and no later error
\* (those caused by the closed pipes included) takes its place.
C9_FirstErrorWins ==
    /\ (errCh # <<>>) => (errLog # <<>> /\ errCh = <<Head(errLog)>>)
    /\ PipeReturned =>
          /\ (result = "nil") <=> (\A i \in 1..nStages : stages[i].ret = "nil")
          /\ (errLog = <<>>) => result = "nil"
          /\ (errLog # <<>>) => result = Head(errLog)

\* two stages failed on their own account, a third through the closed pipe;
\* the first error was returned
C9_Witness ==
    /\ PipeReturned
    /\ Len(errLog) = 3
    /\ errLog[2] \in {ErrOf(i) : i \in 1..nStages}
    /\ errLog[2] # errLog[1]
    /\ result = errLog[1]

\* stage i+1 read io.EOF from pipes[i]
SawEOF(i) == readEnd[i] = "EOF"

\* C10, amended: what stage i+1 has read from pipes[i] is at every moment a
\* prefix of what stage i has written to it; io.EOF is read only after
\* stage i returned nil and every byte it wrote was read; and once stage i
\* has returned nil and closed its pipe, every byte it wrote has been read
\* and a Read finds the pipe closed: with io.EOF, unless the
\* closeAllWithError of a failed stage has closed the read side, and then
\* with io.ErrClosedPipe.
C10_PipeOrder ==
    \A i \in 1..Len(pipes) :
        /\ IsPrefix(got[i], offered[i])
        /\ SawEOF(i) => (stages[i].ret = "nil" /\ got[i] = offered[i])
        /\ (stages[i].ret = "nil" /\ stages[i].pc = "exit") =>
              /\ pipes[i].done
              /\ got[i] = offered[i]
              /\ ReadCloseError(pipes[i]) =
                    IF pipes[i].rerr = "nil" THEN "EOF" ELSE "ErrClosedPipe"
              /\ (pipes[i].rerr # "nil") => (errLog # <<>> /\ pipes[i].rerr = errLog[1])

\* two bytes went through both pipes of a three-stage pipeline in order, a
\* byte at a time, and each reader then saw io.EOF
C10_Witness ==
    /\ nStages = 3
    /\ got[1] = SrcData(2)
    /\ got[2] = SrcData(2)
    /\ SawEOF(1)
    /\ SawEOF(2)
    /\ PipeReturned
    /\ result = "nil"

\* C10 as claimed: once stage i has returned nil and closed its pipe, the
\* Read with which stage i+1 then finds the pipe closed returns io.EOF.
C10_EOFAfterNil ==
    [][\A i \in 1..Len(pipes) :
          (/\ stages[i].ret = "nil"
           /\ stages[i].pc = "exit"
           /\ readEnd[i] = "none"
           /\ readEnd'[i] # "none") => readEnd'[i] = "EOF"]_vars

\* the goroutines whose select sent their error on errCh
Closers == {i \in 1..nStages : stages[i].k >= 1}

\* closeAllWithError has run to its end
CloseAllDone == \E c \in Closers : stages[c].pc \in {"cancel", "exit"}

\* the ends of every pipe once closeAllWithError(e) is over
AllClosedWith(e) ==
    \A j \in 1..Len(pipes) :
        /\ pipes[j].done
        /\ pipes[j].rerr = e
        /\ pipes[j].werr \in {e, "EOF"}
        /\ (pipes[j].werr = "EOF") => stages[j].ret = "nil"
        /\ WriteCloseError(pipes[j]) \in {e, "ErrClosedPipe"}

\* once per run: one goroutine at most gets through the select, with the
\* first error, and cancels when it is done
OnceWithFirstError ==
    /\ Cardinality(Closers) <= 1
    /\ (errLog # <<>>) <=> (Closers # {})
    /\ \A c \in Closers :
          /\ stages[c].ret = errLog[1]
          /\ (stages[c].pc = "exit") => cancelled
          /\ (stages[c].pc \in {"cancel", "exit"}) => AllClosedWith(errLog[1])

\* C30 as claimed: when the first stage error is recorded, both ends of all
\* N-1 pipes are closed with it and the context is cancelled, once per run;
\* from then on a Read or Write on a pipe returns an error, except that a
\* pipe its finished producer had closed keeps giving io.EOF to the Read.
C30_ClosedPipeKeepsEOF ==
    /\ OnceWithFirstError
    /\ CloseAllDone =>
          \A j \in 1..Len(pipes) :
              ReadCloseError(pipes[j]) =
                  IF pipes[j].werr = "EOF" THEN "EOF" ELSE "ErrClosedPipe"

\* C30, amended: when the first stage error is recorded, both ends of all
\* N-1 pipes are closed with it and the context is cancelled, once per run;
\* from then on a Write on a pipe returns that error or io.ErrClosedPipe and
\* a Read returns io.ErrClosedPipe.  The write end of a pipe its finished
\* producer had closed keeps io.EOF as its error, but the Read on it returns
\* io.ErrClosedPipe all the same.
C30_CloseAllOnFirstError ==
    /\ [](/\ OnceWithFirstError
          /\ CloseAllDone =>
                \A j \in 1..Len(pipes) : ReadCloseError(pipes[j]) = "ErrClosedPipe")
    /\ [][\A j \in 1..Len(pipes) :
             (pipes[j].werr = "EOF") => (pipes'[j].werr = "EOF")]_vars

\* the first of three stages finished and closed its pipe, the last one
\* failed: the pipe's write end still holds io.EOF, its read end the error,
\* and the middle stage's Read returned io.ErrClosedPipe
C30_Witness ==
    /\ PipeReturned
    /\ nStages = 3
    /\ result = ErrOf(3)
    /\ pipes[1].werr = "EOF"
    /\ pipes[1].rerr = ErrOf(3)
    /\ pipes[2].werr = ErrOf(3)
    /\ readEnd[1] = "ErrClosedPipe"
    /\ cancelled

\* ---- stages that may stop reading before EOF ----

\* any number of stages from two on; a stage may fail on its own account
InitEarlyReturn ==
    /\ AEADIdle
    /\ CompIdle
    /\ XferIdle
    /\ \E n \in 2..MaxStages, d \in 0..MaxData :
          \E f \in SUBSET (1..n) : PipeScenario(n, d, f, {})

\* the stage function of a stage with a reader returns nil while it is
\* running, whether or not its reader has reached EOF
StageReturnsEarly(i) ==
    /\ stages[i].pc = "run"
    /\ i > 1
    /\ stages' = [stages EXCEPT ![i] = Returned(@, i, "nil")]
    /\ UNCHANGED <<aeadVars, compVars, xferVars, nStages, faulty, mustFail, mainPc, spawned, wg, errCh,
                   cancelled, result, pipes, offered, got, readEnd, errLog>>

NextEarlyReturn ==
    \/ Start
    \/ Spawn
    \/ WaitReturn
    \/ \E i \in 1..nStages : StageFail(i)
    \/ \E i \in 1..nStages : StageFinish(i)
    \/ \E i \in 1..nStages : StageWrite(i)
    \/ \E i \in 1..nStages : WriteAbort(i)
    \/ \E i \in 1..nStages : StageRead(i)
    \/ \E i \in 1..nStages : ReadAbort(i)
    \/ \E i \in 1..nStages : Transfer(i)
    \/ \E i \in 1..nStages : StageReturnsEarly(i)
    \/ \E i \in 1..nStages : Select(i)
    \/ \E i \in 1..nStages : CloseAllStep(i)
    \/ \E i \in 1..nStages : Cancel(i)
    \/ \E i \in 1..nStages : CloseOut(i)

\* some goroutine that can run does run
SpecEarlyReturn == InitEarlyReturn /\ [][NextEarlyReturn]_vars /\ WF_vars(NextEarlyReturn)

\* C37: pipeGraph always returns, also when no stage returns an error and a
\* downstream stage returns nil before it has read its reader to EOF.
C37_AlwaysReturns ==
    <>PipeReturned

-----------------------------------------------------------------------------
(* internal/compress.  zstd as the code uses it: an encoder takes in the   *)
(* bytes written to it and by the end of Close has emitted a frame that    *)
(* decodes to exactly those bytes; an encoder nothing was written to emits *)
(* nothing.  The frame here is a magic byte and (run length, byte) pairs,  *)
(* so that runs shrink and mixed input grows.                              *)

\* most bytes written into one compressor
MaxWritten == 5
\* most bytes of one Write
MaxWrite == 2
\* the small SampleBytes used beside the default one
SmallSample == 3

\* cfg.SampleBytes = 4 << 20 when none is given
DefaultSampleBytes == 4194304
\* cfg.ZstdLevel = 3 when none is given
DefaultZstdLevel == 3
\* cfg.AutoMinSaving = 0.05 when none is given; fractions are <<num, den>>
DefaultMinSaving == <<1, 20>>

\* a >= b for fractions with positive denominators
FracGE(a, b) == a[1] * b[2] >= b[1] * a[2]

ZstdMagic == <<40>>

\* index of the last byte of the run that starts at i
RECURSIVE RunEnd(_, _)
RunEnd(b, i) == IF i < Len(b) /\ b[i + 1] = b[i] THEN RunEnd(b, i + 1) ELSE i

RECURSIVE RleFrom(_, _)
RleFrom(b, i) ==
    IF i > Len(b) THEN <<>>
    ELSE LET e == RunEnd(b, i) IN <<e - i + 1, b[i]>> \o RleFrom(b, e + 1)

\* everything an encoder emits for the bytes b written to it before Close
ZstdEncode(b) == IF b = <<>> THEN <<>> ELSE ZstdMagic \o RleFrom(b, 1)

RECURSIVE UnRle(_, _)
UnRle(z, i) ==
    IF i + 1 > Len(z) THEN <<>> ELSE Rep(z[i + 1], z[i]) \o UnRle(z, i + 2)

\* a stream a decoder reads to its end without error: no frame, or the
\* magic and whole runs
ZstdValid(z) ==
    \/ z = <<>>
    \/ /\ Len(z) > Len(ZstdMagic)
       /\ SubSeq(z, 1, Len(ZstdMagic)) = ZstdMagic
       /\ (Len(z) - Len(ZstdMagic)) % 2 = 0
       /\ \A i \in 1..((Len(z) - Len(ZstdMagic)) \div 2) : z[Len(ZstdMagic) + 2 * i - 1] > 0

\* what a decoder reads from the stream z
ZstdDecode(z) == IF z = <<>> THEN <<>> ELSE UnRle(z, Len(ZstdMagic) + 1)

\* a nil *zstd.Encoder, and one fresh from newZstdEncoder
NoEncoder == [on |-> FALSE, fed |-> <<>>]
newZstdEncoder == [on |-> TRUE, fed |-> <<>>]

\* enc.Write(b)
EncoderWrite(e, b) == [e EXCEPT !.fed = @ \o b]

\* 1 - float64(out)/float64(in), or -1 when nothing came in
Savings(in, out) == IF in > 0 THEN <<in - out, in>> ELSE <<-1, 1>>

\* the defaults NewCompressorWithInfo fills in
CompressorDefaults(cfg) ==
    [cfg EXCEPT !.SampleBytes = IF @ <= 0 THEN DefaultSampleBytes ELSE @,
                !.AutoMinSaving = IF @[1] <= 0 THEN DefaultMinSaving ELSE @,
                !.ZstdLevel = IF @ = 0 THEN DefaultZstdLevel ELSE @]

NewCompressInfo(cfg) ==
    [ModeRequested |-> cfg.Mode, ModeUsed |-> cfg.Mode,
     EstimatedSavings |-> <<-1, 1>>, FinalSavings |-> <<-1, 1>>,
     BytesInUncompressed |-> 0, BytesOutCompressed |-> 0,
     SampledBytes |-> 0, Decided |-> FALSE]

\* the fields of streamCompressor and adaptiveCompressor in one record; out
\* is what the countingWriter passed to the sink, out.n its length
NewCompressorWithInfo(cfg0) ==
    LET cfg == CompressorDefaults(cfg0)
        base == [kind |-> "none", err |-> "nil", cfg |-> cfg, enc |-> NoEncoder,
                 out |-> <<>>, buf |-> <<>>, info |-> NewCompressInfo(cfg),
                 decided |-> FALSE, useZstd |-> FALSE, inN |-> 0, closed |-> FALSE]
    IN CASE cfg.Mode = "none" ->
              [base EXCEPT !.kind = "stream",
                           !.info = [@ EXCEPT !.Decided = TRUE, !.ModeUsed = "none",
                                              !.EstimatedSavings = <<0, 1>>,
                                              !.FinalSavings = <<0, 1>>]]
         [] cfg.Mode = "zstd" ->
              [base EXCEPT !.kind = "stream", !.enc = newZstdEncoder,
                           !.info = [@ EXCEPT !.Decided = TRUE, !.ModeUsed = "zstd"]]
         [] cfg.Mode = "auto" -> [base EXCEPT !.kind = "adaptive"]
         [] OTHER -> [base EXCEPT !.err = "unknown compression mode"]

\* the final counters Close fills in
FinalCounters(c) ==
    [c EXCEPT !.info = [@ EXCEPT !.BytesInUncompressed = c.inN,
                                 !.BytesOutCompressed = Len(c.out),
                                 !.FinalSavings = Savings(c.inN, Len(c.out))]]

\* streamCompressor.Write
streamCompressor_Write(c, b) ==
    IF c.enc.on
    THEN [c EXCEPT !.inN = @ + Len(b), !.enc = EncoderWrite(@, b)]
    ELSE [c EXCEPT !.inN = @ + Len(b), !.out = @ \o b]

\* streamCompressor.Close
streamCompressor_Close(c) ==
    FinalCounters([c EXCEPT !.out = IF c.enc.on THEN @ \o ZstdEncode(c.enc.fed) ELSE @,
                            !.closed = TRUE])

\* a decision that leaves equality out
UseZstd_Strict(est, min) == FracGE(est, min) /\ ~FracGE(min, est)

\* a.useZstd = a.info.EstimatedSavings >= a.cfg.AutoMinSaving
UseZstd(est, min) == FracGE(est, min)

\* a pass-through that forgets the buffered sample
PassSample_Drop(out, sample) == out

\* a.out.Write(sample)
PassSample(out, sample) == out \o sample

\* adaptiveCompressor.decideAndFlush
decideAndFlush(a) ==
    IF a.decided THEN a
    ELSE LET sample == a.buf
             tmp == ZstdEncode(sample)
             est == Savings(Len(sample), Len(tmp))
             zstd == UseZstd(est, a.cfg.AutoMinSaving)
         IN [a EXCEPT
               !.decided = TRUE,
               !.useZstd = zstd,
               !.enc = IF zstd THEN EncoderWrite(newZstdEncoder, sample) ELSE @,
               !.out = IF zstd THEN @ ELSE PassSample(@, sample),
               !.buf = <<>>,
               !.info = [@ EXCEPT !.SampledBytes = Len(sample),
                                  !.EstimatedSavings = est,
                                  !.ModeUsed = IF zstd THEN "zstd" ELSE "none",
                                  !.Decided = TRUE]]

\* a Write that never takes the committed path
WriteCommitted_Never(a) == FALSE

\* if a.decided, at the head of Write
WriteCommitted(a) == a.decided

\* adaptiveCompressor.Write
adaptiveCompressor_Write(a, p) ==
    LET a1 == [a EXCEPT !.inN = @ + Len(p)]
    IN IF WriteCommitted(a1)
       THEN IF a1.useZstd THEN [a1 EXCEPT !.enc = EncoderWrite(@, p)]
                          ELSE [a1 EXCEPT !.out = @ \o p]
       ELSE LET a2 == [a1 EXCEPT !.buf = @ \o p]
            IN IF Len(a2.buf) >= a2.cfg.SampleBytes THEN decideAndFlush(a2) ELSE a2

\* a Close that leaves an undecided compressor undecided
CloseDecides_Never(a) == FALSE

\* if !a.decided, at the head of Close
CloseDecides(a) == ~a.decided

\* adaptiveCompressor.Close
adaptiveCompressor_Close(a) ==
    LET a1 == IF CloseDecides(a) THEN decideAndFlush(a) ELSE a
    IN FinalCounters([a1 EXCEPT
          !.out = IF a1.useZstd /\ a1.enc.on THEN @ \o ZstdEncode(a1.enc.fed) ELSE @,
          !.closed = TRUE])

\* ---- one compressor, written to and closed ----

CompBytes == {0, 1}
CompModes == {"none", "zstd", "auto", "lz4"}
MinSavings == {<<0, 1>>, <<1, 4>>, <<1, 2>>}
SampleSizes == {0, SmallSample}

InitCompress ==
    /\ AEADIdle
    /\ PipeIdle
    /\ XferIdle
    /\ written = <<>>
    /\ \E m \in CompModes, ms \in MinSavings, sb \in SampleSizes :
          comp = NewCompressorWithInfo([Mode |-> m, ZstdLevel |-> 0,
                                        AutoMinSaving |-> ms, SampleBytes |-> sb])

\* w.Write(p)
CompWrite ==
    /\ comp.kind # "none"
    /\ ~comp.closed
    /\ \E n \in 0..Min(MaxWrite, MaxWritten - Len(written)) :
          \E p \in [1..n -> CompBytes] :
             /\ comp' = IF comp.kind = "stream" THEN streamCompressor_Write(comp, p)
                                                ELSE adaptiveCompressor_Write(comp, p)
             /\ written' = written \o p
    /\ UNCHANGED <<aeadVars, pipeVars, xferVars>>

\* w.Close()
CompClose ==
    /\ comp.kind # "none"
    /\ ~comp.closed
    /\ comp' = IF comp.kind = "stream" THEN streamCompressor_Close(comp)
                                       ELSE adaptiveCompressor_Close(comp)
    /\ UNCHANGED <<aeadVars, pipeVars, xferVars, written>>

NextCompress ==
    \/ CompWrite
    \/ CompClose

SpecCompress == InitCompress /\ [][NextCompress]_vars

C19_Lossless ==
    (comp.kind \in {"stream", "adaptive"} /\ comp.closed) =>
        /\ comp.info.ModeUsed \in {"none", "zstd"}
        /\ comp.info.ModeUsed = "none" => comp.out = written
        /\ comp.info.ModeUsed = "zstd" => ZstdDecode(comp.out) = written
        /\ comp.info.BytesInUncompressed = Len(written)

\* auto mode chose pass-through on a sample and more was written after it
C19_Witness ==
    /\ comp.kind = "adaptive"
    /\ comp.closed
    /\ comp.info.ModeUsed = "none"
    /\ comp.info.SampledBytes = SmallSample
    /\ Len(written) > SmallSample
    /\ comp.out = written

\* the mode a decision on the sample b commits to
ModeFor(a, b) ==
    IF b # <<>> /\ FracGE(Savings(Len(b), Len(ZstdEncode(b))), a.cfg.AutoMinSaving)
    THEN "zstd" ELSE "none"

\* C32: a Close of an auto-mode compressor that has not decided yet decides
\* from what was buffered (pass-through when nothing was), sends the
\* buffered bytes to the sink under the chosen mode, and leaves Decided
\* true and ModeUsed none or zstd.
C32_CloseDecidesEarly ==
    [][(comp.kind = "adaptive" /\ ~comp.decided /\ comp'.closed) =>
          /\ Len(comp.buf) < comp.cfg.SampleBytes
          /\ comp.buf = written
          /\ comp'.info.Decided
          /\ comp'.info.SampledBytes = Len(comp.buf)
          /\ comp'.info.ModeUsed = ModeFor(comp, comp.buf)
          /\ comp.buf = <<>> => (comp'.info.ModeUsed = "none" /\ comp'.out = <<>>)
          /\ comp'.info.ModeUsed = "none" => comp'.out = comp.buf
          /\ comp'.info.ModeUsed = "zstd" =>
                (ZstdValid(comp'.out) /\ ZstdDecode(comp'.out) = comp.buf)
          /\ comp'.buf = <<>>]_vars

\* closed with four equal bytes buffered, short of the sample: zstd was chosen
C32_Witness ==
    /\ comp.kind = "adaptive"
    /\ comp.closed
    /\ comp.info.SampledBytes = 4
    /\ comp.info.SampledBytes < comp.cfg.SampleBytes
    /\ comp.info.ModeUsed = "zstd"
    /\ ZstdDecode(comp.out) = written

\* C33: after Close, estimated_savings is -1 whenever no trial compression
\* of a non-empty sample took place (mode none, mode zstd, auto with nothing
\* written), final_savings is -1 exactly when nothing was written, and the
\* byte counters are those of the Write calls and of the sink.
C33_ReportAfterClose ==
    (comp.kind \in {"stream", "adaptive"} /\ comp.closed) =>
        /\ (comp.kind = "stream" \/ written = <<>>) =>
               comp.info.EstimatedSavings = <<-1, 1>>
        /\ (comp.info.FinalSavings = <<-1, 1>>) <=> (written = <<>>)
        /\ comp.info.BytesInUncompressed = Len(written)
        /\ comp.info.BytesOutCompressed = Len(comp.out)

\* C34: in auto mode SampledBytes never exceeds SampleBytes.
C34_SampleBounded ==
    comp.kind = "adaptive" => comp.info.SampledBytes <= comp.cfg.SampleBytes

\* the bytes the committed path has taken so far
Committed(a) == IF a.useZstd THEN a.enc.fed ELSE a.out

\* C36: in auto mode nothing reaches the sink before the decision; the
\* decision takes the whole buffer, once, ahead of every later byte; after
\* it the mode, the sample size and the emptied buffer never change and
\* every written byte goes down the committed path alone.
C36_DecidesOnce ==
    [][comp.kind = "adaptive" =>
          /\ ~comp.decided =>
                (comp.out = <<>> /\ ~comp.enc.on /\ comp.buf = written
                   /\ ~comp.info.Decided)
          /\ (~comp.decided /\ comp'.decided) =>
                (comp'.info.SampledBytes = Len(written') /\ Committed(comp') = written')
          /\ comp.decided =>
                /\ comp'.decided /\ comp'.info.Decided
                /\ comp'.useZstd = comp.useZstd
                /\ comp'.info.ModeUsed = comp.info.ModeUsed
                /\ comp'.info.SampledBytes = comp.info.SampledBytes
                /\ comp'.buf = <<>>
                /\ Committed(comp) = written
                /\ ~comp'.closed => Committed(comp') = written'
                /\ comp.useZstd => (comp.out = <<>> /\ ~comp'.closed => comp'.out = <<>>)
                /\ ~comp.useZstd => (~comp.enc.on /\ ~comp'.enc.on)]_vars

\* decided on a full sample, more written after it, then closed
C36_Witness ==
    /\ comp.kind = "adaptive"
    /\ comp.closed
    /\ comp.info.SampledBytes >= comp.cfg.SampleBytes
    /\ Len(written) > comp.info.SampledBytes
    /\ comp.info.ModeUsed = "zstd"

-----------------------------------------------------------------------------
(* internal/enc (keys and params), internal/envelope and the bucket.       *)
(* The random sources (crypto/rand, ksuid) are taken to give a value they  *)
(* never gave before; draw k is the k-th value.                            *)

\* chunk sizes NewAEADParams accepts: 32 << 10 .. 64 << 20
aeadMinChunkSize == 32768
aeadMaxChunkSize == 67108864

\* rand.Read(n[:]), draw k
RandNBase(k) == [i \in 1..NBaseSize |-> (37 * k + i) % 256]

\* ksuid.New().String(), draw k
Ksuid(k) == <<75, 48 + k>>

\* ChunkSizeInvalid without the upper limit
ChunkSizeInvalid_NoUpper(cs) == cs < aeadMinChunkSize

\* chunkSize < 32<<10 || chunkSize > aeadMaxChunkSize
ChunkSizeInvalid(cs) == cs < aeadMinChunkSize \/ cs > aeadMaxChunkSize

\* NewAEADParams(objectID, chunkSize) with NBase draw k
NewAEADParams(objectID, chunkSize, k) ==
    LET cs == IF chunkSize <= 0 THEN AEADDefaultChunkSize ELSE chunkSize
    IN IF objectID = <<>> THEN [err |-> "aead: objectID required", params |-> <<>>]
       ELSE IF ChunkSizeInvalid(cs)
       THEN [err |-> "aead: invalid chunkSize", params |-> <<>>]
       ELSE [err |-> "nil",
             params |-> [ObjectID |-> objectID, ChunkSize |-> cs, NBase |-> RandNBase(k)]]

\* "burrow/data"
hkdfInfo == <<98, 117, 114, 114, 111, 119, 47, 100, 97, 116, 97>>

\* MasterKeyEmpty refusing every key shorter than a data key
MasterKeyEmpty_Short(masterKey) == Len(masterKey) < KeySize

\* len(masterKey) == 0
MasterKeyEmpty(masterKey) == Len(masterKey) = 0

\* DeriveDataKey: HKDF-SHA256 with IKM masterKey, salt objectID, info
\* "burrow/data"; every byte of the key depends on all three
DeriveDataKey(masterKey, objectID) ==
    IF MasterKeyEmpty(masterKey) THEN [err |-> "aead: masterKey empty", key |-> <<>>]
    ELSE [err |-> "nil",
          key |-> <<>> \o [i \in 1..KeySize |->
                     (Poly(masterKey, i + 1) + 3 * Poly(objectID, i + 2)
                        + 5 * Poly(hkdfInfo, i + 3)) % 256]]

\* "burrow.1.1"
Version1 == "burrow.1.1"

ZeroParams == [ObjectID |-> <<>>, ChunkSize |-> 0, NBase |-> Rep(0, NBaseSize)]

\* envelope.NewEnvelope(objectID, original)
NewEnvelope(objectID, original) ==
    [Version |-> Version1, ObjectID |-> objectID,
     Encryption |-> [Params |-> ZeroParams, DataKey |-> <<>>],
     Compression |-> [Mode |-> ""],
     PlainSHA |-> Rep(0, ShaSize),
     OriginalFileName |-> original,
     CreatedAt |-> "zero"]

\* json.Marshal(e): the struct fields under their JSON names
MarshalEnvelope(e) ==
    [version |-> e.Version, object_id |-> e.ObjectID,
     encryption |-> [Params |-> e.Encryption.Params, DataKey |-> e.Encryption.DataKey],
     compression |-> [Mode |-> e.Compression.Mode],
     plain_sha |-> e.PlainSHA,
     original_file_name |-> e.OriginalFileName,
     CreatedAt |-> e.CreatedAt]

\* bytes that are no JSON text
NotJSON == [syntax |-> "invalid"]

\* whether json.Unmarshal(b, &env) returns nil
ValidJSON(j) == j # NotJSON

\* json.Unmarshal(b, &env)
UnmarshalEnvelope(j) ==
    [Version |-> j.version, ObjectID |-> j.object_id,
     Encryption |-> [Params |-> j.encryption.Params, DataKey |-> j.encryption.DataKey],
     Compression |-> [Mode |-> j.compression.Mode],
     PlainSHA |-> j.plain_sha,
     OriginalFileName |-> j.original_file_name,
     CreatedAt |-> j.CreatedAt]

\* X25519 key pairs: the public key of a private key
AgePublicOf(priv) ==
    CASE priv = "AGE-SECRET-KEY-A" -> "age1a"
      [] priv = "AGE-SECRET-KEY-B" -> "age1b"
      [] OTHER -> "invalid"

AgeRecipients == {"age1a", "age1b"}

\* parseRecipients: the keys that parse; an empty key is skipped
ParsedRecipients(keys) == {keys[i] : i \in 1..Len(keys)} \ {""}

\* Envelope.Seal(recipients, armor): the JSON, readable by the holders of
\* the recipients' private keys only
EnvelopeSeal(e, recipients) ==
    LET rcpts == ParsedRecipients(recipients)
    IN IF Len(recipients) = 0 THEN [err |-> "encryption config", sealed |-> <<>>]
       ELSE IF rcpts \ AgeRecipients # {} THEN [err |-> "parse recipient", sealed |-> <<>>]
       ELSE IF rcpts = {} THEN [err |-> "no valid recipients provided", sealed |-> <<>>]
       ELSE [err |-> "nil", sealed |-> [to |-> rcpts, body |-> MarshalEnvelope(e)]]

\* Envelope.Open(cipher, dec): age decryption with the identities, then
\* json.Unmarshal; no field of the result is looked at
EnvelopeOpen(cipher, identities) ==
    LET ids == {identities[i] : i \in 1..Len(identities)} \ {""}
    IN IF Len(identities) = 0 THEN [err |-> "decryption config", env |-> <<>>]
       ELSE IF \E k \in ids : AgePublicOf(k) = "invalid"
       THEN [err |-> "parse identity", env |-> <<>>]
       ELSE IF ids = {} THEN [err |-> "no valid identities provided", env |-> <<>>]
       ELSE IF {AgePublicOf(k) : k \in ids} \cap cipher.to = {}
       THEN [err |-> "age: no identity matched", env |-> <<>>]
       ELSE IF ~ValidJSON(cipher.body)
       THEN [err |-> "json: invalid character", env |-> <<>>]
       ELSE [err |-> "nil", env |-> UnmarshalEnvelope(cipher.body)]

\* object keys of the bucket
DataObject(objectID) == <<"data/", objectID, ".enc">>
EnvelopeObject(objectID) == <<"keys/", objectID, ".envelope">>

\* the bucket after an upload of v under key k
Put(st, k, v) == [x \in DOMAIN st \cup {k} |-> IF x = k THEN v ELSE st[x]]

-----------------------------------------------------------------------------
(* internal/upload: Uploader.Execute over the encryption pipeline.  The    *)
(* four stages run under pipeGraph as modelled above; what a stage makes   *)
(* of its whole input is computed by the operators below.                  *)

\* most Execute calls on one Uploader
MaxExecutes == 2
\* bytes the first stage of a transfer pipeline hands on
XferData == 1

compressionLevel == 3
compressionMinSaving == <<1, 20>>
compressionSampleSize == 1048576

\* compressStage: io.Copy into the auto compressor, then Close
compressStage(src) ==
    LET c == NewCompressorWithInfo([Mode |-> "auto", ZstdLevel |-> compressionLevel,
                                    AutoMinSaving |-> compressionMinSaving,
                                    SampleBytes |-> compressionSampleSize])
    IN adaptiveCompressor_Close(IF src = <<>> THEN c ELSE adaptiveCompressor_Write(c, src))

\* the params of a session: NewAEADParams(ObjectID, AEADDefaultChunkSize),
\* the chunk size scaled down to chunk where a few bytes are to span
\* several chunks
SessionParams(objectID, k, chunk) ==
    LET np == NewAEADParams(objectID, AEADDefaultChunkSize, k)
    IN IF np.err # "nil" THEN np
       ELSE [np EXCEPT !.params = [@ EXCEPT !.ChunkSize = chunk]]

\* encryptStage: fresh params, the derived key, EncryptAEAD
encryptStage(cfg, objectID, src, k, chunk) ==
    LET np == SessionParams(objectID, k, chunk)
        dk == DeriveDataKey(cfg.MasterKey, objectID)
    IN IF np.err # "nil" THEN Failed("new aead params", 0, BufNew, 0)
       ELSE IF dk.err # "nil" THEN Failed("derive data key", 0, BufNew, 0)
       ELSE EncryptAEAD(Reader(src, "EOF"), dk.key, np.params)

\* the aead.Seal calls of the loop of EncryptAEAD, in order
RECURSIVE EncSeals(_, _, _, _)
EncSeals(src, key, p, idx) ==
    LET rd == ReadFull(src, p.ChunkSize)
    IN IF rd.rerr \notin {"nil", "ErrUnexpectedEOF"} \/ Len(rd.got) = 0 THEN <<>>
       ELSE <<[key |-> key, nbase |-> p.NBase, nonce |-> ChunkNonce(p, idx),
               aad |-> EncAAD(p, idx, Len(rd.got)), idx |-> idx, pt |-> rd.got]>>
            \o (IF rd.rerr = "ErrUnexpectedEOF" THEN <<>>
                ELSE EncSeals(rd.rest, key, p, idx + 1))

\* the Seal calls of the encrypt stage of session n
SessionSeals(cfg, objectID, src, k, chunk, n) ==
    LET np == SessionParams(objectID, k, chunk)
        dk == DeriveDataKey(cfg.MasterKey, objectID)
        sl == IF np.err # "nil" \/ dk.err # "nil" THEN <<>>
              ELSE EncSeals(Reader(src, "EOF"), dk.key, np.params, 0)
    IN {[sess |-> n, key |-> sl[i].key, nbase |-> sl[i].nbase, nonce |-> sl[i].nonce,
         aad |-> sl[i].aad, idx |-> sl[i].idx, pt |-> sl[i].pt] : i \in 1..Len(sl)}

\* a fillEnvelope that records the requested mode
EnvelopeMode_Requested(info) == info.ModeRequested

\* string(result.CompressInfo.ModeUsed)
EnvelopeMode(info) == info.ModeUsed

\* Uploader.fillEnvelope(result); r = <<>> is a nil result
fillEnvelope(e, r) ==
    IF r = <<>> THEN e
    ELSE [e EXCEPT !.Encryption = [Params |-> r.AEADResult.Params,
                                   DataKey |-> r.AEADResult.DataKey],
                   !.PlainSHA = r.AEADResult.PlainSHA,
                   !.Compression = [Mode |-> EnvelopeMode(r.CompressInfo)],
                   !.CreatedAt = "now"]

\* an Execute that goes on after a failed pipeline
PipelineFailed_Never(err) == FALSE

\* if err != nil { return err } after encryptAndUpload
PipelineFailed(err) == err # "nil"

\* pipeline.PipeGraph(ctx, stages...) is called with n stages
CallPipeGraph(n, d, f, m) ==
    /\ nStages' = n
    /\ faulty' = f
    /\ mustFail' = m
    /\ mainPc' = "start"
    /\ spawned' = 0
    /\ wg' = 0
    /\ errCh' = <<>>
    /\ cancelled' = FALSE
    /\ result' = "none"
    /\ pipes' = <<>>
    /\ stages' = [i \in 1..n |-> NewStage(IF i = 1 /\ n > 1 THEN SrcData(d) ELSE <<>>)]
    /\ offered' = [i \in 1..(n - 1) |-> <<>>]
    /\ got' = [i \in 1..(n - 1) |-> <<>>]
    /\ readEnd' = [i \in 1..(n - 1) |-> "none"]
    /\ errLog' = <<>>

\* the caller has PipeGraph's result; its goroutines and pipes are gone
LeavePipeGraph ==
    /\ nStages' = 0
    /\ faulty' = {}
    /\ mustFail' = {}
    /\ mainPc' = "idle"
    /\ spawned' = 0
    /\ wg' = 0
    /\ errCh' = <<>>
    /\ cancelled' = FALSE
    /\ result' = "none"
    /\ pipes' = <<>>
    /\ stages' = <<>>
    /\ offered' = <<>>
    /\ got' = <<>>
    /\ readEnd' = <<>>
    /\ errLog' = <<>>

\* the master key of the configuration
MasterKey1 == [i \in 1..32 |-> (3 * i) % 256]

\* a Config; MasterKey <<>> is a nil MasterKey
ConfigOf(master, pub, priv) ==
    [MasterKey |-> master, AgePublicKey |-> pub, AgePrivateKey |-> priv]

\* the tar streams of the sources uploaded
UpSources == {<<>>, <<97, 98, 97>>, <<97, 97, 97, 97>>}
\* the chunk size of a session: small where the stream is to span chunks
UpChunk(src) == IF src = <<>> THEN AEADDefaultChunkSize ELSE SmallChunk
\* the stages that may fail on their own account in one run
UpFaults == {{}, {1}, {2}, {3}, {4}}

NewUploader(cfg, src, chunk) ==
    [pc |-> "new", calls |-> 0, config |-> cfg, source |-> src, chunk |-> chunk,
     objectID |-> <<>>, envelope |-> NewEnvelope(<<>>, ""), nbase |-> 0,
     err |-> "none", res |-> <<>>, sealed |-> FALSE, ret |-> "none", stdout |-> <<>>]

InitUpload ==
    /\ AEADIdle
    /\ PipeIdle
    /\ CompIdle
    /\ store = <<>>
    /\ down = NoCall
    /\ fresh = 0
    /\ sealLog = {}
    /\ \E m \in {MasterKey1, <<>>}, src \in UpSources :
          up = NewUploader(ConfigOf(m, "age1a", "AGE-SECRET-KEY-A"), src, UpChunk(src))

\* Execute is called: initialize draws the ObjectID and makes the envelope
UpInitialize ==
    /\ up.pc \in {"new", "done"}
    /\ up.calls < MaxExecutes
    /\ fresh' = fresh + 1
    /\ up' = [up EXCEPT !.pc = "initialized", !.calls = @ + 1,
                        !.objectID = Ksuid(fresh + 1),
                        !.envelope = NewEnvelope(Ksuid(fresh + 1), "source"),
                        !.nbase = 0, !.err = "none", !.res = <<>>,
                        !.sealed = FALSE, !.ret = "none"]
    /\ UNCHANGED <<aeadVars, pipeVars, compVars, store, down, sealLog>>

\* encryptAndUpload: EncryptionPipeline checks its options and calls
\* PipeGraph with the four stages; the encrypt stage draws its NBase.  Every
\* chunk the encrypt stage can seal in this run is logged.
UpEncryptAndUpload ==
    /\ up.pc = "initialized"
    /\ IF up.objectID = <<>> \/ up.config.MasterKey = <<>>
       THEN /\ up' = [up EXCEPT !.pc = IF PipelineFailed("option required")
                                       THEN "done" ELSE "fill",
                                !.err = "option required",
                                !.ret = IF PipelineFailed("option required")
                                        THEN "encryption and upload pipeline failed"
                                        ELSE @]
            /\ UNCHANGED <<pipeVars, fresh, sealLog>>
       ELSE LET k == fresh + 1
                enc == encryptStage(up.config, up.objectID,
                                    compressStage(up.source).out, k, up.chunk)
            IN /\ fresh' = k
               /\ up' = [up EXCEPT !.pc = "piping", !.nbase = k]
               /\ sealLog' = sealLog \cup
                     SessionSeals(up.config, up.objectID, compressStage(up.source).out,
                                  k, up.chunk, up.calls)
               /\ \E f \in UpFaults :
                     CallPipeGraph(4, XferData,
                                   f \cup (IF enc.err # "nil" THEN {3} ELSE {}),
                                   IF enc.err # "nil" THEN {3} ELSE {})
    /\ UNCHANGED <<aeadVars, compVars, store, down>>

\* PipeGraph has returned.  On success the upload stage has stored the blob
\* and the stages have left CompressInfo and AEADResult behind; on failure
\* execute returns nil with the error and Execute returns it.
UpPipelineReturned ==
    /\ up.pc = "piping"
    /\ mainPc = "returned"
    /\ LET comp1 == compressStage(up.source)
           enc == encryptStage(up.config, up.objectID, comp1.out, up.nbase, up.chunk)
       IN  /\ store' = IF result = "nil"
                        THEN Put(store, DataObject(up.objectID), enc.sink) ELSE store
           /\ up' = [up EXCEPT
                 !.err = result,
                 !.res = IF result = "nil"
                         THEN [CompressInfo |-> comp1.info, AEADResult |-> enc.res]
                         ELSE <<>>,
                 !.pc = IF PipelineFailed(result) THEN "done" ELSE "fill",
                 !.ret = IF PipelineFailed(result)
                         THEN "encryption and upload pipeline failed" ELSE @]
    /\ LeavePipeGraph
    /\ UNCHANGED <<aeadVars, compVars, down, fresh, sealLog>>

\* u.fillEnvelope(encryptionResult); x, _ := json.Marshal(u.envelope);
\* fmt.Println(string(x))
UpFillEnvelope ==
    /\ up.pc = "fill"
    /\ up' = [up EXCEPT !.pc = "envelope", !.envelope = fillEnvelope(@, up.res),
                        !.stdout = Append(@, MarshalEnvelope(fillEnvelope(up.envelope, up.res)))]
    /\ UNCHANGED <<aeadVars, pipeVars, compVars, store, down, fresh, sealLog>>

\* uploadEnvelope: Seal to the configured public key, then Upload, which
\* the storage may fail
UpUploadEnvelope ==
    /\ up.pc = "envelope"
    /\ LET sl == EnvelopeSeal(up.envelope, <<up.config.AgePublicKey>>)
       IN IF sl.err # "nil"
          THEN /\ up' = [up EXCEPT !.pc = "done", !.sealed = TRUE,
                                   !.ret = "failed to seal envelope"]
               /\ store' = store
          ELSE \/ /\ up' = [up EXCEPT !.pc = "done", !.sealed = TRUE, !.ret = "nil"]
                  /\ store' = Put(store, EnvelopeObject(up.objectID), sl.sealed)
               \/ /\ up' = [up EXCEPT !.pc = "done", !.sealed = TRUE,
                                      !.ret = "failed to upload envelope"]
                  /\ store' = store
    /\ UNCHANGED <<aeadVars, pipeVars, compVars, down, fresh, sealLog>>

NextUpload ==
    \/ UpInitialize
    \/ UpEncryptAndUpload
    \/ UpPipelineReturned
    \/ UpFillEnvelope
    \/ UpUploadEnvelope
    \/ Start
    \/ Spawn
    \/ WaitReturn
    \/ \E i \in 1..nStages : StageFail(i)
    \/ \E i \in 1..nStages : StageFinish(i)
    \/ \E i \in 1..nStages : StageWrite(i)
    \/ \E i \in 1..nStages : WriteAbort(i)
    \/ \E i \in 1..nStages : StageRead(i)
    \/ \E i \in 1..nStages : ReadAbort(i)
    \/ \E i \in 1..nStages : Transfer(i)
    \/ \E i \in 1..nStages : Select(i)
    \/ \E i \in 1..nStages : CloseAllStep(i)
    \/ \E i \in 1..nStages : Cancel(i)
    \/ \E i \in 1..nStages : CloseOut(i)

SpecUpload == InitUpload /\ [][NextUpload]_vars

\* C13: the envelope is sealed, and its upload to keys/<ObjectID>.envelope
\* starts, only after the encryption pipeline has returned success, the
\* data blob is stored and the encrypt stage's AEADParams and PlainSHA are
\* in the envelope; after a pipeline error no envelope is sealed or stored.
C13_EnvelopeAfterPipeline ==
    /\ (up.pc = "envelope" \/ up.sealed) =>
          /\ up.err = "nil"
          /\ mainPc = "idle"
          /\ up.res # <<>>
          /\ DataObject(up.objectID) \in DOMAIN store
          /\ up.envelope.Encryption.Params = up.res.AEADResult.Params
          /\ up.envelope.PlainSHA = up.res.AEADResult.PlainSHA
    /\ (up.err \notin {"none", "nil"}) =>
          /\ ~up.sealed
          /\ EnvelopeObject(up.objectID) \notin DOMAIN store
    /\ (EnvelopeObject(up.objectID) \in DOMAIN store) => up.sealed

\* an Execute that sealed and stored its envelope, and one that failed in
\* the pipeline, on the same Uploader
C13_Witness ==
    /\ up.calls = 2
    /\ up.err \notin {"none", "nil"}
    /\ up.pc = "done"
    /\ \E k \in 1..fresh : EnvelopeObject(Ksuid(k)) \in DOMAIN store

\* the Seal calls logged for session n, and the stream they make: each
\* sealed chunk behind its 4-byte length
SealsOf(n) == {a \in sealLog : a.sess = n}
SealedFrame(a) ==
    LET ct == Seal(a.key, a.nonce, a.pt, a.aad) IN LE(Len(ct), HdrSize) \o ct

\* C14: no pair (DataKey, nonce) seals two different chunks, over all
\* sessions; the chunk indices of a session are 0, 1, 2, ... without gap or
\* repeat; sessions have different NBases; and the blob a session stores is
\* made of exactly the chunks logged for it, in index order.
C14_NonceUnique ==
    /\ \A a, b \in sealLog : (a.key = b.key /\ a.nonce = b.nonce) => a = b
    /\ \A a, b \in sealLog : (a.sess = b.sess /\ a.idx = b.idx) => a = b
    /\ \A a \in sealLog :
          a.idx = 0 \/ \E b \in sealLog : b.sess = a.sess /\ b.idx = a.idx - 1
    /\ \A a, b \in sealLog : (a.sess # b.sess) => a.nbase # b.nbase
    /\ (up.pc \in {"fill", "envelope"} \/ (up.pc = "done" /\ up.err = "nil")) =>
          LET fs == Frames(store[DataObject(up.objectID)])
          IN /\ Len(fs) = Cardinality(SealsOf(up.calls))
             /\ \A a \in SealsOf(up.calls) : fs[a.idx + 1] = SealedFrame(a)

\* two sessions of one Uploader, each with a second chunk sealed
C14_Witness ==
    /\ \E a \in SealsOf(1) : a.idx = 1
    /\ \E b \in SealsOf(2) : b.idx = 1
    /\ up.calls = 2
    /\ up.pc = "done"
    /\ up.err = "nil"

-----------------------------------------------------------------------------
(* internal/download: the decryption pipeline's stages on whole streams *)

\* a decompressStage that copies every mode but zstd through
PassthroughMode_Any(mode) == mode # "zstd"

\* case string(compress.CompressNone), "": the stream is copied through
PassthroughMode(mode) == mode \in {"none", ""}

\* decompressStage: what reaches the next stage of the stream data under the
\* envelope's compression mode
decompressStage(mode, data) ==
    IF PassthroughMode(mode) THEN [err |-> "nil", out |-> data]
    ELSE IF mode = "zstd"
    THEN IF ZstdValid(data) THEN [err |-> "nil", out |-> ZstdDecode(data)]
         ELSE [err |-> "decompress stage copy", out |-> <<>>]
    ELSE [err |-> "unsupported compression mode", out |-> <<>>]

\* C17: after a successful Execute the stored envelope, sealed to the
\* configured public key, records what the pipeline used for the stored
\* blob: object_id and params.ObjectID are the ObjectID, params and
\* plain_sha are the encrypt stage's, data_key is DeriveDataKey(MasterKey,
\* ObjectID), mode is the compressor's ModeUsed and is "none" or "zstd";
\* the blob decrypts under the recorded key and params to a stream with the
\* recorded hash that decompresses under the recorded mode to the source.
C17_EnvelopeRecordsPipeline ==
    (up.pc = "done" /\ up.ret = "nil") =>
        LET id == up.objectID
            sealed == store[EnvelopeObject(id)]
            env == sealed.body
            blob == store[DataObject(id)]
            comp1 == compressStage(up.source)
            enc == encryptStage(up.config, id, comp1.out, up.nbase, up.chunk)
            dec == DecryptAEAD(Reader(blob, "EOF"), env.encryption.DataKey,
                               env.encryption.Params)
        IN /\ sealed.to = {up.config.AgePublicKey}
           /\ env.version = Version1
           /\ env.object_id = id
           /\ env.encryption.Params.ObjectID = id
           /\ env.encryption.Params = enc.res.Params
           /\ env.encryption.Params.NBase = RandNBase(up.nbase)
           /\ env.plain_sha = enc.res.PlainSHA
           /\ env.encryption.DataKey = DeriveDataKey(up.config.MasterKey, id).key
           /\ env.compression.Mode = comp1.info.ModeUsed
           /\ env.compression.Mode \in {"none", "zstd"}
           /\ blob = enc.sink
           /\ dec.err = "nil"
           /\ dec.res.PlainSHA = env.plain_sha
           /\ decompressStage(env.compression.Mode, dec.sink).out = up.source

\* the second successful Execute of an Uploader whose compressor committed
\* to zstd
C17_Witness ==
    /\ up.pc = "done"
    /\ up.ret = "nil"
    /\ store[EnvelopeObject(up.objectID)].body.compression.Mode = "zstd"
    /\ up.calls = 2

\* some producer stage of the upload pipeline has returned an error
ProducerFailed == \E i \in 1..3 : stages[i].ret \notin {"none", "nil"}

\* C38: the reader of the upload stage (the read end of the third pipe)
\* ends with EOF only if the archive, compress and encrypt stages all
\* returned nil and every byte written to it was delivered; once one of
\* them has failed it never ends with EOF, and by the time PipeGraph
\* returns an upload stage still reading has met an error.
C38_NoEOFAfterFailure ==
    (up.pc = "piping" /\ mainPc \notin {"start", "idle"}) =>
        /\ readEnd[3] = "EOF" =>
              /\ \A i \in 1..3 : stages[i].ret = "nil"
              /\ got[3] = offered[3]
              /\ got[3] = SrcData(XferData)
        /\ ProducerFailed => readEnd[3] # "EOF"
        /\ (PipeReturned /\ ProducerFailed /\ 4 \notin faulty) =>
              (readEnd[3] \notin {"none", "EOF"} /\ stages[4].ret = readEnd[3])

\* the archive stage failed after the upload stage had taken its first
\* byte: the upload's reader ended with an error
C38_Witness ==
    /\ up.pc = "piping"
    /\ PipeReturned
    /\ stages[1].ret = ErrOf(1)
    /\ got[3] # <<>>
    /\ readEnd[3] = "ErrClosedPipe"
    /\ result = ErrOf(1)

\* b occurs in a as a run of consecutive bytes
Infix(b, a) == \E i \in 0..(Len(a) - Len(b)) : SubSeq(a, i + 1, i + Len(b)) = b

\* the data keys the Uploader has used so far
UsedDataKeys == {s.key : s \in sealLog}

\* C25 as claimed: the DataKey leaves the process only inside the sealed
\* envelope: the envelope object in the bucket is sealed to the configured
\* public key, the blob does not hold the key, the error Execute returns is
\* one of its fixed texts, and nothing Execute prints is the unsealed
\* envelope or holds a DataKey.
C25_DataKeyOnlySealed ==
    /\ \A k \in DOMAIN store :
          IF k[1] = "keys/" THEN store[k].to = {up.config.AgePublicKey}
          ELSE \A key \in UsedDataKeys : ~Infix(key, store[k])
    /\ up.ret \in {"none", "nil", "encryption and upload pipeline failed",
                    "failed to seal envelope", "failed to upload envelope"}
    /\ \A i \in 1..Len(up.stdout) : up.stdout[i].encryption.DataKey = <<>>

-----------------------------------------------------------------------------
(* internal/download: Downloader.Execute over the decryption pipeline.     *)
(* The bucket holds what an upload of a source left there, as it was       *)
(* stored or with one thing changed.                                       *)

\* a decryptStage that does not compare the hashes
ShaMismatch_Ignored(a, b) == FALSE

\* !enc.VerifySHA256(aeadResult.PlainSHA, dp.opts.Envelope.PlainSHA)
ShaMismatch(a, b) == ~VerifySHA256(a, b)

\* decryptStage on the whole blob: the key is derived from Config.MasterKey
\* and the ObjectID, the params are the envelope's; out is what DecryptAEAD
\* wrote to the next stage
decryptStage(cfg, objectID, env, blob) ==
    LET dk == DeriveDataKey(cfg.MasterKey, objectID)
        dec == DecryptAEAD(Reader(blob, "EOF"), dk.key, env.Encryption.Params)
    IN IF dk.err # "nil" THEN [err |-> "derive data key", out |-> <<>>, sha |-> <<>>]
       ELSE IF dec.err # "nil"
       THEN [err |-> "aead decrypt", out |-> dec.sink, sha |-> <<>>]
       ELSE IF ShaMismatch(dec.res.PlainSHA, env.PlainSHA)
       THEN [err |-> "SHA256 verification failed", out |-> dec.sink,
             sha |-> dec.res.PlainSHA]
       ELSE [err |-> "nil", out |-> dec.sink, sha |-> dec.res.PlainSHA]

\* the master key after a rotation
MasterKey2 == [i \in 1..32 |-> (5 * i + 1) % 256]

\* what an Execute of an Uploader with MasterKey1 and public key age1a
\* leaves in the bucket for source src
UploadedEnvelope(src) ==
    LET cfg == ConfigOf(MasterKey1, "age1a", "AGE-SECRET-KEY-A")
        comp1 == compressStage(src)
        enc == encryptStage(cfg, Ksuid(1), comp1.out, 1, UpChunk(src))
    IN fillEnvelope(NewEnvelope(Ksuid(1), "source"),
                    [CompressInfo |-> comp1.info, AEADResult |-> enc.res])

UploadedBlob(src) ==
    encryptStage(ConfigOf(MasterKey1, "age1a", "AGE-SECRET-KEY-A"), Ksuid(1),
                 compressStage(src).out, 1, UpChunk(src)).sink

\* what is changed in the bucket
Tampers == {"nothing", "version", "mode auto", "mode empty", "mode lz4", "sha",
            "truncate", "no blob", "no envelope", "not json", "object id",
            "params object", "flip last"}

\* the envelope a writer holding the public key seals in place of e
TamperedEnvelope(t, e) ==
    CASE t = "version" -> [e EXCEPT !.Version = "burrow.9.9"]
      [] t = "mode auto" -> [e EXCEPT !.Compression = [Mode |-> "auto"]]
      [] t = "mode empty" -> [e EXCEPT !.Compression = [Mode |-> ""]]
      [] t = "mode lz4" -> [e EXCEPT !.Compression = [Mode |-> "lz4"]]
      [] t = "sha" -> [e EXCEPT !.PlainSHA = [@ EXCEPT ![1] = (@ + 1) % 256]]
      [] t = "object id" -> [e EXCEPT !.ObjectID = Ksuid(2)]
      [] t = "params object" ->
            [e EXCEPT !.ObjectID = Ksuid(2),
                      !.Encryption = [@ EXCEPT !.Params = [@ EXCEPT !.ObjectID = Ksuid(2)]]]
      [] OTHER -> e

\* the first chunk of a stored stream, with its header
FirstFrame(s) == SubSeq(s, 1, HdrSize + Uint32(SubSeq(s, 1, HdrSize)))

\* the bucket of a scenario
ScenarioStore(t, src) ==
    LET sealed == EnvelopeSeal(TamperedEnvelope(t, UploadedEnvelope(src)),
                               <<"age1a">>).sealed
        st == IF t = "no envelope" THEN <<>>
              ELSE IF t = "not json"
              THEN Put(<<>>, EnvelopeObject(Ksuid(1)), [sealed EXCEPT !.body = NotJSON])
              ELSE Put(<<>>, EnvelopeObject(Ksuid(1)), sealed)
        blob == UploadedBlob(src)
    IN IF t = "no blob" THEN st
       ELSE IF t = "truncate"
       THEN Put(st, DataObject(Ksuid(1)), FirstFrame(blob))
       ELSE IF t = "flip last"
       THEN Put(st, DataObject(Ksuid(1)), [blob EXCEPT ![Len(blob)] = FlipBit(@, 0)])
       ELSE Put(st, DataObject(Ksuid(1)), blob)

DownSources == {<<97, 98, 97>>, <<97, 97, 97, 97>>}

\* the configurations a download runs under: the uploader's, one without a
\* master key, one with the rotated master key, one with another identity
DownConfigs ==
    {ConfigOf(MasterKey1, "age1a", "AGE-SECRET-KEY-A"),
     ConfigOf(<<>>, "age1a", "AGE-SECRET-KEY-A"),
     ConfigOf(MasterKey2, "age1a", "AGE-SECRET-KEY-A"),
     ConfigOf(MasterKey1, "age1b", "AGE-SECRET-KEY-B")}

\* the plaintext of a later encryption
ReencPlain == <<98>>

NewDownloader(cfg, objectID, t, src) ==
    [pc |-> "new", config |-> cfg, objectID |-> objectID, tamper |-> t,
     source |-> src, envelope |-> <<>>, reqs |-> {}, stageErr |-> <<>>, dec |-> <<>>,
     err |-> "none", ret |-> "none", out |-> <<>>, reenc |-> <<>>,
     dest |-> [created |-> FALSE, bytes |-> <<>>]]

InitDownload ==
    /\ AEADIdle
    /\ PipeIdle
    /\ CompIdle
    /\ up = NoCall
    /\ fresh = 1
    /\ sealLog = {}
    /\ \E t \in Tampers, src \in DownSources, cfg \in DownConfigs :
          /\ t # "nothing" => cfg = ConfigOf(MasterKey1, "age1a", "AGE-SECRET-KEY-A")
          /\ store = ScenarioStore(t, src)
          /\ down = NewDownloader(cfg, Ksuid(1), t, src)

\* an Execute that goes on after a failed fetchEnvelope
FetchFailed_Never(err) == FALSE

\* if err := d.fetchEnvelope(); err != nil { return err }
FetchFailed(err) == err # "nil"

\* where Execute goes after fetchEnvelope returned err
AfterFetch(err) == IF FetchFailed(err) THEN "done" ELSE "fetched"

\* fetchEnvelope: GetObject of keys/<id>.envelope, Envelope.Open with the
\* configured private key
DownFetchEnvelope ==
    /\ down.pc = "new"
    /\ LET key == EnvelopeObject(down.objectID)
           op == EnvelopeOpen(store[key], <<down.config.AgePrivateKey>>)
       IN IF key \notin DOMAIN store
          THEN down' = [down EXCEPT !.pc = AfterFetch("get envelope"),
                                    !.reqs = @ \cup {key}, !.ret = "get envelope"]
          ELSE IF op.err # "nil"
          THEN down' = [down EXCEPT !.pc = AfterFetch("open envelope"),
                                    !.reqs = @ \cup {key}, !.ret = "open envelope"]
          ELSE down' = [down EXCEPT !.pc = AfterFetch("nil"), !.reqs = @ \cup {key},
                                    !.envelope = op.env]
    /\ UNCHANGED <<aeadVars, pipeVars, compVars, store, up, fresh, sealLog>>

\* the stages that fail on their own account on the stored blob, with their
\* errors: download, decrypt, decompress, output
StageErrors(dec, env, objectID, st) ==
    LET dcm == decompressStage(env.Compression.Mode, dec.out)
    IN <<IF DataObject(objectID) \in DOMAIN st THEN "nil" ELSE "download stage",
         dec.err,
         IF dcm.err = "unsupported compression mode" \/ dec.err = "nil"
         THEN dcm.err ELSE "nil",
         "nil">>

\* the stages that fail before their input has ended
FailsEarly(errs) ==
    {i \in 1..Len(errs) : errs[i] \notin {"nil", "SHA256 verification failed"}}

\* downloadAndDecrypt: DecryptionPipeline checks its options and calls
\* PipeGraph with download, decrypt, decompress and the output stage, which
\* may fail on its own account
DownDecryptionPipeline ==
    /\ down.pc = "fetched"
    /\ IF down.objectID = <<>>
       THEN /\ down' = [down EXCEPT !.pc = "done", !.ret = "objectID is required"]
            /\ UNCHANGED pipeVars
       ELSE IF down.envelope = <<>>
       THEN /\ down' = [down EXCEPT !.pc = "done", !.ret = "envelope is required"]
            /\ UNCHANGED pipeVars
       ELSE IF down.config.MasterKey = <<>>
       THEN /\ down' = [down EXCEPT !.pc = "done", !.ret = "masterKey is required"]
            /\ UNCHANGED pipeVars
       ELSE LET key == DataObject(down.objectID)
                dec == decryptStage(down.config, down.objectID, down.envelope,
                                    IF key \in DOMAIN store THEN store[key] ELSE <<>>)
                errs == StageErrors(dec, down.envelope, down.objectID, store)
                own == {i \in 1..4 : errs[i] # "nil"}
            IN /\ down' = [down EXCEPT !.pc = "piping", !.stageErr = errs, !.dec = dec]
               /\ \E f \in {{}, {4}} :
                     CallPipeGraph(4, XferData, FailsEarly(errs) \cup f, own)
    /\ UNCHANGED <<aeadVars, compVars, store, up, fresh, sealLog>>

\* PipeGraph has returned: the download stage has requested data/<id>.enc;
\* on success the output stage has written what the decompress stage made.
\* dest is the destination as the output stage left it: the file it made on
\* entry (unless it failed on its own account) and the bytes of the
\* pipeline's stream it took off its reader and wrote
DownPipelineReturned ==
    /\ down.pc = "piping"
    /\ mainPc = "returned"
    /\ down' = [down EXCEPT
             !.pc = "done",
             !.reqs = @ \cup {DataObject(down.objectID)},
             !.err = result,
             !.ret = IF result = "nil" THEN "nil" ELSE "decryption pipeline",
             !.out = IF result = "nil"
                     THEN decompressStage(down.envelope.Compression.Mode, down.dec.out).out
                     ELSE <<>>,
             !.dest = [created |-> stages[4].ret # ErrOf(4), bytes |-> got[3]]]
    /\ LeavePipeGraph
    /\ UNCHANGED <<aeadVars, compVars, store, up, fresh, sealLog>>

\* enc.EncryptAEAD is called with the key and params of the opened envelope
EncryptWithEnvelopeParams ==
    /\ down.pc = "done"
    /\ down.envelope # <<>>
    /\ down.reenc = <<>>
    /\ down' = [down EXCEPT !.reenc =
                  EncryptAEAD(Reader(ReencPlain, "EOF"),
                              down.envelope.Encryption.DataKey,
                              down.envelope.Encryption.Params)]
    /\ UNCHANGED <<aeadVars, pipeVars, compVars, store, up, fresh, sealLog>>

NextDownload ==
    \/ DownFetchEnvelope
    \/ DownDecryptionPipeline
    \/ DownPipelineReturned
    \/ EncryptWithEnvelopeParams
    \/ Start
    \/ Spawn
    \/ WaitReturn
    \/ \E i \in 1..nStages : StageFail(i)
    \/ \E i \in 1..nStages : StageFinish(i)
    \/ \E i \in 1..nStages : StageWrite(i)
    \/ \E i \in 1..nStages : WriteAbort(i)
    \/ \E i \in 1..nStages : StageRead(i)
    \/ \E i \in 1..nStages : ReadAbort(i)
    \/ \E i \in 1..nStages : Transfer(i)
    \/ \E i \in 1..nStages : Select(i)
    \/ \E i \in 1..nStages : CloseAllStep(i)
    \/ \E i \in 1..nStages : Cancel(i)
    \/ \E i \in 1..nStages : CloseOut(i)

SpecDownload == InitDownload /\ [][NextDownload]_vars

\* the download whose bucket and configuration are the upload's own, but
\* for the change t
Scenario(t) ==
    /\ down.tamper = t
    /\ down.config = ConfigOf(MasterKey1, "age1a", "AGE-SECRET-KEY-A")

\* C11: an envelope whose version is not "burrow.1.1" is not opened: the
\* Downloader holds no envelope, requests no data/<ObjectID>.enc and
\* returns an error.
C11_UnknownVersionRejected ==
    Scenario("version") =>
        /\ down.envelope = <<>>
        /\ DataObject(down.objectID) \notin down.reqs
        /\ down.pc = "done" => down.ret # "nil"

\* the pipeline was called, the blob decrypts, and the SHA-256 of the
\* decrypted stream is not the envelope's plain_sha
ShaDiffers ==
    /\ down.dec # <<>>
    /\ down.dec.sha # <<>>
    /\ down.dec.sha # down.envelope.PlainSHA

\* C12: Execute returns nil only if the blob decrypted and the SHA-256 of
\* the decrypted stream equals envelope.plain_sha; when they differ the
\* decrypt stage returns an error and Execute a non-nil error, whatever
\* the other stages do.
C12_ShaMismatchFails ==
    /\ (down.pc = "done" /\ down.ret = "nil") =>
          /\ down.dec.sha # <<>>
          /\ down.dec.sha = down.envelope.PlainSHA
    /\ ShaDiffers =>
          /\ (down.pc = "piping" /\ stages[2].ret # "none") => stages[2].ret # "nil"
          /\ (down.pc = "piping" /\ mainPc = "returned") => result # "nil"
          /\ down.pc = "done" => down.ret # "nil"

\* the plain_sha of the envelope is not that of the stream: the decrypt
\* stage read the blob to its end and returned its own error, and Execute
\* failed
C12_Witness ==
    /\ Scenario("sha")
    /\ ShaDiffers
    /\ down.pc = "done"
    /\ down.stageErr[2] = "SHA256 verification failed"
    /\ down.err = ErrOf(2)
    /\ down.ret # "nil"

\* C15: EncryptAEAD given the params of an opened envelope returns an
\* error and writes nothing.
C15_StoredParamsRefused ==
    down.reenc # <<>> => (down.reenc.err # "nil" /\ down.reenc.sink = <<>>)

\* C16: a Download with the matching private key and no MasterKey, on a
\* bucket as the upload left it, succeeds.
C16_PrivateKeySuffices ==
    (/\ down.tamper = "nothing"
     /\ down.config.AgePrivateKey = "AGE-SECRET-KEY-A"
     /\ down.config.MasterKey = <<>>
     /\ down.pc = "done") => down.ret = "nil"

\* the decryption pipeline was called with an envelope of mode m
PipelineCalledWithMode(m) ==
    /\ down.dec # <<>>
    /\ down.envelope.Compression.Mode = m

\* C20 as stated: every mode other than "none" and "zstd" makes the
\* decompress stage fail with the unsupported-mode error and the Download
\* fail, with no output.
C20_OnlyNoneOrZstd ==
    \A m \in {"auto", "", "lz4"} :
        PipelineCalledWithMode(m) =>
            /\ down.stageErr[3] = "unsupported compression mode"
            /\ down.pc = "done" => (down.ret # "nil" /\ down.out = <<>>)

\* C20: for every mode other than "none", "zstd" and "" the decompress
\* stage fails with the unsupported-mode error, PipeGraph returns an error
\* (that of the decompress stage when no other stage fails on its own
\* account), Execute returns an error and there is no output; under mode ""
\* the decrypted stream is passed through as under "none".
C20_UnsupportedMode ==
    /\ \A m \in {"auto", "lz4"} :
          PipelineCalledWithMode(m) =>
             /\ down.stageErr[3] = "unsupported compression mode"
             /\ (down.pc = "piping" /\ mainPc = "returned") =>
                   /\ result # "nil"
                   /\ (faulty \cap {1, 2, 4} = {}) => result = ErrOf(3)
             /\ down.pc = "done" => (down.ret # "nil" /\ down.out = <<>>)
    /\ PipelineCalledWithMode("") =>
          /\ down.stageErr[3] = "nil"
          /\ (down.pc = "done" /\ down.ret = "nil") => down.out = down.dec.out

\* an envelope of mode "auto": the decompress stage's error is what
\* PipeGraph returned, and Execute failed
C20_Witness ==
    /\ Scenario("mode auto")
    /\ PipelineCalledWithMode("auto")
    /\ down.pc = "done"
    /\ down.err = ErrOf(3)
    /\ down.ret # "nil"

\* what fetchEnvelope meets in this bucket with this configuration
EnvelopeFetch ==
    LET key == EnvelopeObject(down.objectID)
    IN IF key \notin DOMAIN store THEN "get envelope"
       ELSE IF EnvelopeOpen(store[key], <<down.config.AgePrivateKey>>).err # "nil"
       THEN "open envelope" ELSE "nil"

\* nothing of the data object was asked for and the destination is untouched
NoDataNoOutput ==
    /\ DataObject(down.objectID) \notin down.reqs
    /\ mainPc = "idle"
    /\ down.dest = [created |-> FALSE, bytes |-> <<>>]
    /\ down.out = <<>>

\* C31: the decryption pipeline, and with it the request for
\* data/<ObjectID>.enc and every write to the destination, starts only
\* after keys/<ObjectID>.envelope was requested and opened with the private
\* key; when the envelope cannot be fetched, decrypted or parsed, Execute
\* returns that error and there is no data request and no output.
C31_EnvelopeBeforeData ==
    /\ ~NoDataNoOutput =>
          /\ EnvelopeFetch = "nil"
          /\ EnvelopeObject(down.objectID) \in down.reqs
          /\ down.envelope =
                EnvelopeOpen(store[EnvelopeObject(down.objectID)],
                             <<down.config.AgePrivateKey>>).env
    /\ EnvelopeFetch # "nil" =>
          /\ NoDataNoOutput
          /\ down.envelope = <<>>
          /\ down.pc \in {"new", "done"}
          /\ down.pc = "done" => down.ret = EnvelopeFetch

\* the envelope decrypts but is no JSON text, the blob is in the bucket:
\* Execute returned the error of Open and the blob was never asked for
C31_Witness ==
    /\ down.tamper = "not json"
    /\ DataObject(down.objectID) \in DOMAIN store
    /\ down.pc = "done"
    /\ down.ret = "open envelope"
    /\ down.reqs = {EnvelopeObject(down.objectID)}
    /\ NoDataNoOutput

\* the decrypt stage failed on a chunk that does not authenticate or on the
\* digest, after DecryptAEAD had passed plaintext on
DecryptRefused ==
    /\ down.dec # <<>>
    /\ down.stageErr[2] \in {"aead decrypt", "SHA256 verification failed"}
    /\ down.dec.out # <<>>

\* C39: when the decrypt stage fails with a chunk authentication error or a
\* digest mismatch, the output stage has been handed no byte of the stream
\* and the destination is left without a file and without content.
C39_NoOutputBeforeVerified ==
    /\ (down.pc = "piping" /\ DecryptRefused /\ stages[2].ret = ErrOf(2)) =>
          got[3] = <<>>
    /\ (down.pc = "done" /\ DecryptRefused /\ down.err = ErrOf(2)) =>
          down.dest = [created |-> FALSE, bytes |-> <<>>]

\* C40: a Download of ObjectID X whose opened envelope names another object,
\* in object_id or in encryption.params.ObjectID, fails.
C40_EnvelopeBoundToObject ==
    (/\ down.pc = "done"
     /\ down.envelope # <<>>
     /\ \/ down.envelope.ObjectID # down.objectID
        \/ down.envelope.Encryption.Params.ObjectID # down.objectID)
        => down.ret # "nil"

-----------------------------------------------------------------------------
(* internal/enc: DeriveDataKey and NewAEADParams on their own.  An         *)
(* uploading and a downloading process each hold a master key and an       *)
(* ObjectID and derive the data key, more than once; the uploading one     *)
(* also makes params for a requested chunk size, more than once.           *)

MaxCalls == 2

\* none, the two 32-byte keys, a key of one byte
MasterKeys == {<<>>, MasterKey1, MasterKey2, <<9>>}

ObjectIDs == {<<>>, Ksuid(1), Ksuid(2)}

\* the stand-ins of the default, and the two sides of the limits 32 KiB
\* and 64 MiB
RequestedChunkSizes ==
    {-1, 0, aeadMinChunkSize - 1, aeadMinChunkSize, aeadMaxChunkSize,
     aeadMaxChunkSize + 1}

\* a process about to call the functions: keys and made hold what the calls
\* returned, in call order
KeyCaller(masterKey, objectID, chunkSize) ==
    [pc |-> "enc", config |-> [MasterKey |-> masterKey], objectID |-> objectID,
     chunkSize |-> chunkSize, keys |-> <<>>, made |-> <<>>]

InitKeys ==
    /\ AEADIdle
    /\ PipeIdle
    /\ CompIdle
    /\ store = <<>>
    /\ sealLog = {}
    /\ fresh = 1
    /\ \E mk \in MasterKeys, id \in ObjectIDs, cs \in RequestedChunkSizes :
          up = KeyCaller(mk, id, cs)
    /\ \E mk \in MasterKeys \ {MasterKey2}, id \in ObjectIDs \ {<<>>} :
          down = KeyCaller(mk, id, 0)

\* enc.DeriveDataKey(Config.MasterKey, ObjectID) in the uploading process
UpDeriveDataKey ==
    /\ up.pc = "enc"
    /\ Len(up.keys) < MaxCalls
    /\ up' = [up EXCEPT !.keys = Append(@, DeriveDataKey(up.config.MasterKey, up.objectID))]
    /\ UNCHANGED <<aeadVars, pipeVars, compVars, store, down, fresh, sealLog>>

\* enc.DeriveDataKey(Config.MasterKey, ObjectID) in the downloading process
DownDeriveDataKey ==
    /\ down.pc = "enc"
    /\ Len(down.keys) < MaxCalls
    /\ down' = [down EXCEPT !.keys = Append(@, DeriveDataKey(down.config.MasterKey, down.objectID))]
    /\ UNCHANGED <<aeadVars, pipeVars, compVars, store, up, fresh, sealLog>>

\* enc.NewAEADParams(ObjectID, chunkSize) in the uploading process
UpNewAEADParams ==
    /\ up.pc = "enc"
    /\ Len(up.made) < MaxCalls
    /\ up' = [up EXCEPT !.made = Append(@, NewAEADParams(up.objectID, up.chunkSize, fresh))]
    /\ fresh' = fresh + 1
    /\ UNCHANGED <<aeadVars, pipeVars, compVars, store, down, sealLog>>

NextKeys ==
    \/ UpDeriveDataKey
    \/ DownDeriveDataKey
    \/ UpNewAEADParams

SpecKeys == InitKeys /\ [][NextKeys]_vars

\* what the calls of one process returned
DerivedBy(c) == {c.keys[i] : i \in 1..Len(c.keys)}

C22_NewAEADParams ==
    \A i \in 1..Len(up.made) :
        LET r == up.made[i]
            cs == up.chunkSize
        IN /\ (up.objectID = <<>>) => r.err # "nil"
           /\ (cs > 0 /\ (cs < 32768 \/ cs > 67108864)) => r.err # "nil"
           /\ (r.err = "nil") =>
                 /\ r.params.ObjectID = up.objectID
                 /\ r.params.ChunkSize = IF cs <= 0 THEN 4194304 ELSE cs
                 /\ Len(r.params.NBase) = NBaseSize
                 /\ \A j \in 1..(i - 1) :
                       up.made[j].err = "nil" => up.made[j].params.NBase # r.params.NBase
           /\ (up.objectID # <<>> /\ cs <= 0) => r.err = "nil"

\* two calls with chunkSize 0: both succeed with the 4 MiB default and with
\* different NBase
C22_Witness ==
    /\ up.chunkSize = 0
    /\ up.objectID = Ksuid(1)
    /\ Len(up.made) = MaxCalls
    /\ up.made[1].err = "nil"
    /\ up.made[2].err = "nil"
    /\ up.made[1].params.ChunkSize = AEADDefaultChunkSize
    /\ up.made[1].params.NBase # up.made[2].params.NBase

-----------------------------------------------------------------------------
(* internal/enc: the age wrappers NewEncryptWriter and NewDecryptReader.   *)
(* What the age library puts on dst or takes from src is kept as a list of *)
(* events: the age header written by age.Encrypt, the armor block written  *)
(* when an armor writer is closed, the peek at the armor prefix and the    *)
(* header read by age.Decrypt.                                             *)

\* BothOrNeither refusing only a configuration with neither
BothOrNeither_NeitherOnly(pass, keys) == ~pass /\ ~keys

\* pass == keys: both true or both false
BothOrNeither(pass, keys) == pass = keys

validateEncryptConfig(cfg) ==
    IF BothOrNeither(cfg.Passphrase # "", Len(cfg.Recipients) > 0)
    THEN "encryption config" ELSE "nil"

validateDecryptConfig(cfg) ==
    IF BothOrNeither(cfg.Passphrase # "", Len(cfg.Identities) > 0)
    THEN "decryption config" ELSE "nil"

\* what dst holds when NewEncryptWriter fails after validation: the armor
\* writer, if there is one, was closed
ClosedArmor(cfg) == IF cfg.Armor THEN <<"armor block">> ELSE <<>>

\* a closers list with the armor writer ahead of the age writer
BuildClosers_ArmorFirst(armor) == IF armor THEN <<"armor", "age">> ELSE <<"age">>

\* closers := []io.Closer{wr}, then the armor writer if there is one
BuildClosers(armor) == IF armor THEN <<"age", "armor">> ELSE <<"age">>

\* multiCloseWriter.Close from closer i on: errs[i] is what finals[i].Close()
\* returns; the result is the closers closed, in order, and firstErr
RECURSIVE multiCloseWriter_Close(_, _, _, _, _)
multiCloseWriter_Close(finals, errs, i, closed, firstErr) ==
    IF i > Len(finals) THEN [closed |-> closed, err |-> firstErr]
    ELSE multiCloseWriter_Close(finals, errs, i + 1, Append(closed, finals[i]),
            IF errs[i] # "nil" /\ firstErr = "nil" THEN errs[i] ELSE firstErr)

\* NewEncryptWriter(dst, cfg): the error, whether a writer is returned, and
\* what was written to dst by the time it returns
NewEncryptWriter(cfg) ==
    LET rcpts == ParsedRecipients(cfg.Recipients)
    IN IF validateEncryptConfig(cfg) # "nil"
       THEN [err |-> validateEncryptConfig(cfg), writer |-> FALSE, dst |-> <<>>]
       ELSE IF cfg.Passphrase # ""
       THEN [err |-> "nil", writer |-> TRUE, dst |-> <<"age header">>]
       ELSE IF rcpts \ AgeRecipients # {}
       THEN [err |-> "parse recipient", writer |-> FALSE, dst |-> ClosedArmor(cfg)]
       ELSE IF rcpts = {}
       THEN [err |-> "no valid recipients provided", writer |-> FALSE,
             dst |-> ClosedArmor(cfg)]
       ELSE [err |-> "nil", writer |-> TRUE, dst |-> <<"age header">>]

\* NewDecryptReader(src, cfg) on an age file for the recipients src.to or
\* the passphrase src.pass: the error, whether a reader is returned, and the
\* reads made on src by the time it returns
NewDecryptReader(src, cfg) ==
    LET ids == {cfg.Identities[i] : i \in 1..Len(cfg.Identities)} \ {""}
    IN IF validateDecryptConfig(cfg) # "nil"
       THEN [err |-> validateDecryptConfig(cfg), reader |-> FALSE, read |-> <<>>]
       ELSE IF cfg.Passphrase # ""
       THEN IF cfg.Passphrase = src.pass
            THEN [err |-> "nil", reader |-> TRUE, read |-> <<"peek", "age header">>]
            ELSE [err |-> "age: incorrect passphrase", reader |-> FALSE,
                  read |-> <<"peek", "age header">>]
       ELSE IF \E k \in ids : AgePublicOf(k) = "invalid"
       THEN [err |-> "parse identity", reader |-> FALSE, read |-> <<"peek">>]
       ELSE IF ids = {}
       THEN [err |-> "no valid identities provided", reader |-> FALSE, read |-> <<"peek">>]
       ELSE IF {AgePublicOf(k) : k \in ids} \cap src.to = {}
       THEN [err |-> "age: no identity matched", reader |-> FALSE,
             read |-> <<"peek", "age header">>]
       ELSE [err |-> "nil", reader |-> TRUE, read |-> <<"peek", "age header">>]

EncryptConfigs ==
    [Passphrase : {"", "pw"},
     Recipients : {<<>>, <<"">>, <<"age1a">>, <<"age1a", "age1b">>, <<"age1x">>},
     Armor : BOOLEAN]

DecryptConfigs ==
    [Passphrase : {"", "pw", "other"},
     Identities : {<<>>, <<"">>, <<"AGE-SECRET-KEY-A">>, <<"AGE-SECRET-KEY-B">>,
                   <<"AGE-SECRET-KEY-X">>}]

\* an age file for the holder of AGE-SECRET-KEY-A, one for a passphrase
AgeFiles == {[to |-> {"age1a"}, pass |-> ""], [to |-> {}, pass |-> "pw"]}

InitAge ==
    /\ AEADIdle
    /\ PipeIdle
    /\ CompIdle
    /\ store = <<>>
    /\ sealLog = {}
    /\ fresh = 0
    /\ \E cfg \in EncryptConfigs : up = [pc |-> "age", cfg |-> cfg, ret |-> <<>>]
    /\ \E cfg \in DecryptConfigs, src \in AgeFiles :
          down = [pc |-> "age", cfg |-> cfg, src |-> src, ret |-> <<>>]

\* enc.NewEncryptWriter(dst, cfg)
CallNewEncryptWriter ==
    /\ up.pc = "age"
    /\ up' = [up EXCEPT !.pc = "called", !.ret = NewEncryptWriter(up.cfg)]
    /\ UNCHANGED <<aeadVars, pipeVars, compVars, store, down, fresh, sealLog>>

\* enc.NewDecryptReader(src, cfg)
CallNewDecryptReader ==
    /\ down.pc = "age"
    /\ down' = [down EXCEPT !.pc = "called", !.ret = NewDecryptReader(down.src, down.cfg)]
    /\ UNCHANGED <<aeadVars, pipeVars, compVars, store, up, fresh, sealLog>>

\* what a closer's Close() may return
CloseErrs(c) == {"nil", c \o " close failed"}

\* w.Close() on the writer NewEncryptWriter returned
CloseEncryptWriter ==
    /\ up.pc = "called"
    /\ up.ret.writer
    /\ LET finals == BuildClosers(up.cfg.Armor)
       IN \E errs \in [1..Len(finals) -> UNION {CloseErrs(c) : c \in {"age", "armor"}}] :
             /\ \A i \in 1..Len(finals) : errs[i] \in CloseErrs(finals[i])
             /\ up' = [pc |-> "closed", cfg |-> up.cfg, ret |-> up.ret, errs |-> errs,
                       close |-> multiCloseWriter_Close(finals, errs, 1, <<>>, "nil")]
    /\ UNCHANGED <<aeadVars, pipeVars, compVars, store, down, fresh, sealLog>>

NextAge ==
    \/ CallNewEncryptWriter
    \/ CallNewDecryptReader
    \/ CloseEncryptWriter

SpecAge == InitAge /\ [][NextAge]_vars

\* exactly one of the two is set
ExactlyOne(passphrase, keys) == (passphrase # "") # (Len(keys) > 0)

\* C23: NewEncryptWriter and NewDecryptReader return the validation error,
\* with nothing written to dst or read from src, exactly when both or
\* neither of Passphrase and Recipients (Identities) are set; with exactly
\* one of them set the validation passes.
C23_ExactlyOneCredential ==
    /\ (up.pc = "called") =>
          /\ (up.ret.err = "encryption config")
                <=> ~ExactlyOne(up.cfg.Passphrase, up.cfg.Recipients)
          /\ (up.ret.err = "encryption config") =>
                (up.ret.dst = <<>> /\ ~up.ret.writer)
    /\ (down.pc = "called") =>
          /\ (down.ret.err = "decryption config")
                <=> ~ExactlyOne(down.cfg.Passphrase, down.cfg.Identities)
          /\ (down.ret.err = "decryption config") =>
                (down.ret.read = <<>> /\ ~down.ret.reader)

\* a writer asked for with a passphrase and a recipient and with armor, a
\* reader with neither: both refused, dst and src untouched
C23_Witness ==
    /\ up.pc = "called"
    /\ up.cfg = [Passphrase |-> "pw", Recipients |-> <<"age1a">>, Armor |-> TRUE]
    /\ up.ret.err = "encryption config"
    /\ up.ret.dst = <<>>
    /\ down.pc = "called"
    /\ down.cfg = [Passphrase |-> "", Identities |-> <<>>]
    /\ down.ret.err = "decryption config"
    /\ down.ret.read = <<>>

\* C35: closing the writer NewEncryptWriter returned with Armor set closes
\* the age writer, then the armor writer, each once, the armor writer also
\* when the age writer's Close failed, and returns the first error met.
C35_AgeBeforeArmor ==
    (up.pc = "closed" /\ up.cfg.Armor) =>
        /\ up.close.closed = <<"age", "armor">>
        /\ up.close.err = IF up.errs[1] # "nil" THEN up.errs[1] ELSE up.errs[2]

\* both closers failed: the age writer's error is the one returned
C35_Witness ==
    /\ up.pc = "closed"
    /\ up.cfg.Armor
    /\ up.errs = <<"age close failed", "armor close failed">>
    /\ up.close.closed = <<"age", "armor">>
    /\ up.close.err = "age close failed"

-----------------------------------------------------------------------------
(* internal/archive: ExtractTar.  A path is the sequence of its            *)
(* components; a name of the archive is such a sequence with a flag for a  *)
(* leading slash.  While an archive is extracted, store is the file        *)
(* system: a function from absolute paths to directories, files (with      *)
(* their inode) and symlinks (with their target); down is the ExtractTar   *)
(* call, and down.log the set of file system objects it has created,       *)
(* written or linked, each with the index of the entry it was for.         *)

\* most entries of an archive
MaxEntries == 2

\* filepath.Clean on the components of a relative path: "x/.." goes, a
\* leading ".." stays
RECURSIVE CleanRel(_, _)
CleanRel(acc, rest) ==
    IF rest = <<>> THEN acc
    ELSE LET c == Head(rest)
         IN IF c = ".." /\ acc # <<>> /\ acc[Len(acc)] # ".."
            THEN CleanRel(SubSeq(acc, 1, Len(acc) - 1), Tail(rest))
            ELSE CleanRel(Append(acc, c), Tail(rest))

\* filepath.Clean on the components of a rooted path: ".." at the root goes
RECURSIVE CleanRooted(_, _)
CleanRooted(acc, rest) ==
    IF rest = <<>> THEN acc
    ELSE LET c == Head(rest)
         IN IF c = ".."
            THEN CleanRooted(SubSeq(acc, 1, Len(acc) - 1), Tail(rest))
            ELSE CleanRooted(Append(acc, c), Tail(rest))

\* filepath.Clean(hdr.Name)
CleanName(name) ==
    [abs |-> name.abs,
     comps |-> IF name.abs THEN CleanRooted(<<>>, name.comps)
               ELSE CleanRel(<<>>, name.comps)]

\* strings.HasPrefix(name, "..") on a cleaned name
IllegalPath(name) == ~name.abs /\ name.comps # <<>> /\ name.comps[1] = ".."

\* filepath.Join(destDir, name): the two joined by a slash, and cleaned
JoinPath(dir, name) == CleanRooted(<<>>, dir \o name.comps)

\* filepath.Dir of an absolute path
DirOf(p) == SubSeq(p, 1, Len(p) - 1)

\* p is dir or lies under it
Under(dir, p) == Len(p) >= Len(dir) /\ SubSeq(p, 1, Len(dir)) = dir

IsKind(fs, p, k) == p = <<>> \/ (p \in DOMAIN fs /\ fs[p].kind = k)

\* the path the kernel reaches for the components rest seen from directory
\* cur: a symlink on the way is followed, the last component only if
\* followLast; hops bounds the symlinks followed
RECURSIVE Walk(_, _, _, _, _)
Walk(fs, cur, rest, followLast, hops) ==
    IF rest = <<>> THEN [err |-> "nil", path |-> cur]
    ELSE LET c == Head(rest)
             p == Append(cur, c)
         IN IF c = ".."
            THEN Walk(fs, SubSeq(cur, 1, Len(cur) - 1), Tail(rest), followLast, hops)
            ELSE IF /\ p \in DOMAIN fs
                    /\ fs[p].kind = "symlink"
                    /\ (Tail(rest) # <<>> \/ followLast)
            THEN IF hops = 0 THEN [err |-> "ELOOP", path |-> p]
                 ELSE Walk(fs, IF fs[p].target.abs THEN <<>> ELSE cur,
                           fs[p].target.comps \o Tail(rest), followLast, hops - 1)
            ELSE Walk(fs, p, Tail(rest), followLast, hops)

RealPath(fs, p, followLast) == Walk(fs, <<>>, p, followLast, Cardinality(DOMAIN fs))

\* the absolute paths that are p or lead to it
Prefixes(p) == {SubSeq(p, 1, n) : n \in 1..Len(p)}

\* the paths of the file system that are the file of inode ino
Aliases(fs, ino) == {q \in DOMAIN fs : fs[q].kind = "file" /\ fs[q].ino = ino}

\* a file system with node n at path p
WithNode(fs, p, n) == [q \in DOMAIN fs \cup {p} |-> IF q = p THEN n ELSE fs[q]]

\* os.MkdirAll(p, mode): the missing directories on the way to where p
\* leads are made
MkdirAll(fs, p, at) ==
    LET r == RealPath(fs, p, TRUE)
        missing == {q \in Prefixes(r.path) : q \notin DOMAIN fs}
    IN IF r.err # "nil" \/ \E q \in Prefixes(r.path) : q \in DOMAIN fs /\ fs[q].kind # "dir"
       THEN [err |-> "mkdir", fs |-> fs, log |-> {}]
       ELSE [err |-> "nil",
             fs |-> [q \in DOMAIN fs \cup missing |->
                       IF q \in DOMAIN fs THEN fs[q] ELSE [kind |-> "dir"]],
             log |-> {[op |-> "mkdir", path |-> q, at |-> at] : q \in missing}]

\* os.OpenFile(p, O_CREATE|O_WRONLY|O_TRUNC, mode) and the copy into it: a
\* symlink at p is followed; an existing file is emptied and written under
\* all its names
OpenFile(fs, p, at, ino) ==
    LET r == RealPath(fs, p, TRUE)
    IN IF \/ r.err # "nil"
          \/ ~IsKind(fs, DirOf(r.path), "dir")
          \/ (r.path \in DOMAIN fs /\ fs[r.path].kind # "file")
       THEN [err |-> "create file", fs |-> fs, log |-> {}]
       ELSE IF r.path \in DOMAIN fs
       THEN [err |-> "nil", fs |-> fs,
             log |-> {[op |-> "write", path |-> q, at |-> at] :
                         q \in Aliases(fs, fs[r.path].ino)}]
       ELSE [err |-> "nil", fs |-> WithNode(fs, r.path, [kind |-> "file", ino |-> ino]),
             log |-> {[op |-> "write", path |-> r.path, at |-> at]}]

\* os.Symlink(linkname, p): linkname is stored as it is
Symlink(fs, linkname, p, at) ==
    LET d == RealPath(fs, DirOf(p), TRUE)
        q == Append(d.path, p[Len(p)])
    IN IF d.err # "nil" \/ ~IsKind(fs, d.path, "dir") \/ q \in DOMAIN fs
       THEN [err |-> "symlink", fs |-> fs, log |-> {}]
       ELSE [err |-> "nil", fs |-> WithNode(fs, q, [kind |-> "symlink", target |-> linkname]),
             log |-> {[op |-> "symlink", path |-> q, at |-> at]}]

\* os.Link(old, p): p becomes another name of the file old
Link(fs, old, p, at) ==
    LET o == RealPath(fs, old, FALSE)
        d == RealPath(fs, DirOf(p), TRUE)
        q == Append(d.path, p[Len(p)])
    IN IF \/ o.err # "nil" \/ d.err # "nil"
          \/ o.path \notin DOMAIN fs
          \/ fs[o.path].kind = "dir"
          \/ ~IsKind(fs, d.path, "dir")
          \/ q \in DOMAIN fs
       THEN [err |-> "hardlink", fs |-> fs, log |-> {}]
       ELSE [err |-> "nil", fs |-> WithNode(fs, q, fs[o.path]),
             log |-> {[op |-> "link", path |-> q, at |-> at],
                      [op |-> "linked", path |-> o.path, at |-> at]}]

\* one after the other: the second only if the first went well
AndThen(first, second) ==
    IF first.err # "nil" THEN first
    ELSE [err |-> second.err, fs |-> second.fs, log |-> first.log \cup second.log]

\* one turn of ExtractTar's loop for entry hdr, the at-th of the archive
ExtractEntry(fs, dest, hdr, at, ino) ==
    LET name == CleanName(hdr.Name)
        target == JoinPath(dest, name)
    IN IF IllegalPath(name) THEN [err |-> "illegal path", fs |-> fs, log |-> {}]
       ELSE IF hdr.Typeflag = "dir" THEN MkdirAll(fs, target, at)
       ELSE IF hdr.Typeflag = "reg"
       THEN LET md == MkdirAll(fs, DirOf(target), at)
            IN AndThen(md, OpenFile(md.fs, target, at, ino))
       ELSE IF hdr.Typeflag = "symlink"
       THEN LET md == MkdirAll(fs, DirOf(target), at)
            IN AndThen(md, Symlink(md.fs, hdr.Linkname, target, at))
       ELSE IF hdr.Typeflag = "link"
       THEN Link(fs, JoinPath(dest, hdr.Linkname), target, at)
       ELSE [err |-> "nil", fs |-> fs, log |-> {}]

\* destDir, and what is on the machine beside it
destDir == <<"dest">>

HostFiles ==
    (<<"dest">> :> [kind |-> "dir"])
      @@ (<<"etc">> :> [kind |-> "dir"])
      @@ (<<"etc", "passwd">> :> [kind |-> "file", ino |-> 1])

Rel(comps) == [abs |-> FALSE, comps |-> comps]

\* names an archive may carry: plain, nested, under a name that may be a
\* link, climbing out, and rooted
EntryNames ==
    {Rel(<<"a">>), Rel(<<"l">>), Rel(<<"l", "passwd">>),
     Rel(<<"a", "..", "..", "etc", "passwd">>),
     [abs |-> TRUE, comps |-> <<"etc", "passwd">>]}

LinkNames == {Rel(<<"a">>), Rel(<<"..", "etc">>), Rel(<<"..", "etc", "passwd">>)}

TarEntries ==
    [Typeflag : {"dir", "reg"}, Name : EntryNames, Linkname : {Rel(<<>>)}]
      \cup [Typeflag : {"symlink", "link"}, Name : EntryNames, Linkname : LinkNames]
      \cup [Typeflag : {"fifo"}, Name : {Rel(<<"a">>)}, Linkname : {Rel(<<>>)}]

InitExtract ==
    /\ AEADIdle
    /\ PipeIdle
    /\ CompIdle
    /\ up = NoCall
    /\ sealLog = {}
    /\ fresh = 2
    /\ store = HostFiles
    /\ \E es \in SeqsUpTo(TarEntries, MaxEntries) :
          down = [pc |-> "next", entries |-> es, pos |-> 0, err |-> "none", log |-> {}]

\* tr.Next() returns a header: one turn of the loop
ExtractNext ==
    /\ down.pc = "next"
    /\ down.pos < Len(down.entries)
    /\ LET at == down.pos + 1
           r == ExtractEntry(store, destDir, down.entries[at], at, fresh)
       IN /\ store' = r.fs
          /\ fresh' = fresh + 1
          /\ down' = [down EXCEPT !.pos = at,
                                   !.log = @ \cup r.log,
                                   !.pc = IF r.err = "nil" THEN "next" ELSE "done",
                                   !.err = IF r.err = "nil" THEN @ ELSE r.err]
    /\ UNCHANGED <<aeadVars, pipeVars, compVars, up, sealLog>>

\* tr.Next() returns io.EOF: ExtractTar returns nil
ExtractEOF ==
    /\ down.pc = "next"
    /\ down.pos = Len(down.entries)
    /\ down' = [down EXCEPT !.pc = "done", !.err = "nil"]
    /\ UNCHANGED <<aeadVars, pipeVars, compVars, store, up, fresh, sealLog>>

NextExtract ==
    \/ ExtractNext
    \/ ExtractEOF

SpecExtract == InitExtract /\ [][NextExtract]_vars

\* C24 as claimed: ExtractTar creates, overwrites and links nothing outside
\* destDir: an entry whose cleaned name leaves destDir is refused with an
\* error before anything is written for it, and every path written, and
\* every file linked, lies under destDir.
C24_ExtractStaysInside ==
    /\ \A i \in 1..down.pos :
          IllegalPath(CleanName(down.entries[i].Name)) =>
             /\ down.pos = i
             /\ down.err = "illegal path"
             /\ \A e \in down.log : e.at # i
    /\ \A e \in down.log : Under(destDir, e.path)

=============================================================================
